---- MODULE Spec2Model ----
(***************************************************************************)
(* Model of the reports MCP server (src/server.js): the tool-call router,  *)
(* the nine dispatcher functions, the bearer-token helper and the HTML     *)
(* field formatter.                                                        *)
(*                                                                         *)
(* JavaScript values are tagged records; a JavaScript string is a sequence *)
(* of one-character strings so that regular expressions, trim, split and   *)
(* startsWith are computed character by character.  Numbers are integers   *)
(* counting tenths (100 is 10.0, -1 is -0.1).                              *)
(***************************************************************************)
EXTENDS Integers, Sequences, FiniteSets, TLC

VARIABLES JWT_TOKEN, calls, formatting

vars == <<JWT_TOKEN, calls, formatting>>

(***************************************************************************)
(* Bounds of the explored argument universe.                               *)
(***************************************************************************)
MaxKeys == 3
MaxBatch == 3
MaxText == 4
MaxInFlight == 2

(***************************************************************************)
(* JavaScript values.                                                      *)
(***************************************************************************)
Undef == [t |-> "undefined"]
Null == [t |-> "null"]
Str(s) == [t |-> "string", v |-> s]
Num(n) == [t |-> "number", v |-> n]
Arr(s) == [t |-> "array", v |-> s]
Obj(f) == [t |-> "object", v |-> f]

Truthy(x) ==
  CASE x.t = "undefined" -> FALSE
    [] x.t = "null" -> FALSE
    [] x.t = "string" -> x.v /= <<>>
    [] x.t = "number" -> x.v /= 0
    [] OTHER -> TRUE

IsString(x) == x.t = "string"

\* F applied to the value of x: x is evaluated once, as the initialiser of a
\* const declaration is
With(x, F(_)) == CHOOSE y \in {F(v) : v \in {x}} : TRUE

\* property read o.k on a value that is not null/undefined
Get(o, k) ==
  IF o.t = "object" /\ k \in DOMAIN o.v THEN o.v[k] ELSE Undef

\* o.k = x on an object value
Put(o, k, x) ==
  With(o, LAMBDA target :
    Obj([j \in (DOMAIN target.v) \cup {k} |->
           IF j = k THEN x ELSE target.v[j]]))

EmptyObject == Obj([j \in {} |-> Undef])

RECURSIVE Concat(_)
Concat(ss) == IF ss = <<>> THEN <<>> ELSE Head(ss) \o Concat(Tail(ss))

(***************************************************************************)
(* String literals of the source.                                          *)
(***************************************************************************)
HexDigits ==
  {"0", "1", "2", "3", "4", "5", "6", "7", "8", "9",
   "a", "b", "c", "d", "e", "f", "A", "B", "C", "D", "E", "F"}

DefaultTemplateId ==
  <<"6", "7", "b", "1", "d", "a", "c", "1", "2", "c", "8", "d",
    "2", "3", "2", "7", "2", "a", "d", "4", "7", "c", "b", "d">>

validStatuses ==
  << <<"D", "r", "a", "f", "t">>,
     <<"I", "n", " ", "P", "r", "o", "g", "r", "e", "s", "s">>,
     <<"S", "u", "b", "m", "i", "t", "t", "e", "d">>,
     <<"R", "e", "v", "i", "e", "w", "e", "d">>,
     <<"C", "l", "o", "s", "e", "d">> >>

validSeverities ==
  << <<"I", "n", "f", "o", "r", "m", "a", "t", "i", "o", "n", "a", "l">>,
     <<"L", "o", "w">>,
     <<"M", "e", "d", "i", "u", "m">>,
     <<"H", "i", "g", "h">>,
     <<"C", "r", "i", "t", "i", "c", "a", "l">> >>

CvssPrefix == <<"C", "V", "S", "S", ":", "3", ".", "1", "/">>

\* Array.prototype.includes on an array of strings
Includes(arr, x) ==
  IsString(x) /\ \E i \in 1..Len(arr) : arr[i] = x.v

\* String.prototype.startsWith
StartsWith(s, p) ==
  Len(s) >= Len(p) /\ SubSeq(s, 1, Len(p)) = p

\* /^[0-9a-fA-F]{24}$/ applied to a string
MatchesObjectId(s) ==
  Len(s) = 24 /\ \A i \in 1..Len(s) : s[i] \in HexDigits

(***************************************************************************)
(* formatAsHTML                                                            *)
(***************************************************************************)
Whitespace == {" ", "\n", "\t", "\r", "\f"}
ListSeparators == {"\n", ";", ",", "|"}

RECURSIVE TrimStart(_)
TrimStart(s) ==
  IF s /= <<>> /\ Head(s) \in Whitespace THEN TrimStart(Tail(s)) ELSE s

RECURSIVE TrimEnd(_)
TrimEnd(s) ==
  IF s /= <<>> /\ s[Len(s)] \in Whitespace
  THEN TrimEnd(SubSeq(s, 1, Len(s) - 1))
  ELSE s

Trim(s) == TrimEnd(TrimStart(s))

\* content.split(/\n|;|,|\|/): cur is the segment being read
RECURSIVE SplitFrom(_, _)
SplitFrom(s, cur) ==
  IF s = <<>> THEN <<cur>>
  ELSE IF Head(s) \in ListSeparators
       THEN <<cur>> \o SplitFrom(Tail(s), <<>>)
       ELSE SplitFrom(Tail(s), Append(cur, Head(s)))

Split(s) == SplitFrom(s, <<>>)

ListItems(s) ==
  SelectSeq([i \in 1..Len(Split(s)) |-> Trim(Split(s)[i])],
            LAMBDA item : item /= <<>>)

StrIncludes(s, ch) == \E i \in 1..Len(s) : s[i] = ch

TagP == <<"<", "p", ">">>
TagPEnd == <<"<", "/", "p", ">">>
TagUl == <<"<", "u", "l", ">">>
TagUlEnd == <<"<", "/", "u", "l", ">">>
TagLi == <<"<", "l", "i", ">">>
TagLiEnd == <<"<", "/", "l", "i", ">">>

\* variant: the paragraph wraps the trimmed content
formatAsHTML_Trimmed(content, fieldType) ==
  IF ~Truthy(content) \/ ~IsString(content) THEN content
  ELSE IF StrIncludes(content.v, "<") /\ StrIncludes(content.v, ">") THEN content
  ELSE IF fieldType = "list" /\ Len(ListItems(content.v)) > 1
       THEN Str(TagUl
                \o Concat([i \in 1..Len(ListItems(content.v)) |->
                             TagLi \o ListItems(content.v)[i] \o TagLiEnd])
                \o TagUlEnd)
       ELSE Str(TagP \o Trim(content.v) \o TagPEnd)

\* variant: a single item already makes a list
formatAsHTML_SingleItemList(content, fieldType) ==
  IF ~Truthy(content) \/ ~IsString(content) THEN content
  ELSE IF StrIncludes(content.v, "<") /\ StrIncludes(content.v, ">") THEN content
  ELSE IF fieldType = "list" /\ Len(ListItems(content.v)) > 0
       THEN Str(TagUl
                \o Concat([i \in 1..Len(ListItems(content.v)) |->
                             TagLi \o ListItems(content.v)[i] \o TagLiEnd])
                \o TagUlEnd)
       ELSE Str(TagP \o content.v \o TagPEnd)

\* variant: content that already holds tags is wrapped like any other
formatAsHTML_NoPassThrough(content, fieldType) ==
  IF ~Truthy(content) \/ ~IsString(content) THEN content
  ELSE IF fieldType = "list" /\ Len(ListItems(content.v)) > 1
       THEN Str(TagUl
                \o Concat([i \in 1..Len(ListItems(content.v)) |->
                             TagLi \o ListItems(content.v)[i] \o TagLiEnd])
                \o TagUlEnd)
       ELSE Str(TagP \o content.v \o TagPEnd)

formatAsHTML(content, fieldType) ==
  IF ~Truthy(content) \/ ~IsString(content) THEN content
  ELSE IF StrIncludes(content.v, "<") /\ StrIncludes(content.v, ">") THEN content
  ELSE IF fieldType = "list" /\ Len(ListItems(content.v)) > 1
       THEN Str(TagUl
                \o Concat([i \in 1..Len(ListItems(content.v)) |->
                             TagLi \o ListItems(content.v)[i] \o TagLiEnd])
                \o TagUlEnd)
       ELSE Str(TagP \o content.v \o TagPEnd)

(***************************************************************************)
(* Errors, results of a synchronous run, requests and envelopes.           *)
(***************************************************************************)
NoUrl == [endpoint |-> "", path |-> <<>>]

Msg(text) == [text |-> text, url |-> NoUrl, cause |-> "", id |-> Undef]

\* new McpError(ErrorCode.<code>, message)
McpError(code, message) ==
  [cls |-> "McpError", code |-> code, message |-> message,
   response |-> Undef, request |-> FALSE]

\* a fault raised by the JavaScript engine
TypeError(text) ==
  [cls |-> "TypeError", code |-> "", message |-> Msg(text),
   response |-> Undef, request |-> FALSE]

\* the rejection of an axios promise
AxiosError(text, response, hasRequest) ==
  [cls |-> "AxiosError", code |-> "", message |-> Msg(text),
   response |-> response, request |-> hasRequest]

NoError ==
  [cls |-> "none", code |-> "", message |-> Msg(""),
   response |-> Undef, request |-> FALSE]

Response(status, data) == [t |-> "response", status |-> status, data |-> data]

NoRequest == [method |-> "none"]
NoValue == [kind |-> "none"]

\* How a synchronous run of a function ends: it returns a value, throws an
\* error, or is suspended on the promise of an issued request.  raised is
\* the error first thrown inside it.
Return(v) ==
  [t |-> "return", value |-> v, error |-> NoError, request |-> NoRequest,
   raised |-> NoError]
Throw(e) ==
  [t |-> "throw", value |-> NoValue, error |-> e, request |-> NoRequest,
   raised |-> e]
Await(req) ==
  [t |-> "await", value |-> NoValue, error |-> NoError, request |-> req,
   raised |-> NoError]

REPORTS_ENDPOINT == "http://10.10.10.117:3000/api/report"
VULNERABILITY_ENDPOINT == "http://10.10.10.117:3000/api/vulnerability"

\* `${endpoint}/${seg1}/...`
Url(endpoint, path) == [endpoint |-> endpoint, path |-> path]

PathReport == <<"r", "e", "p", "o", "r", "t">>

\* axios.<method>(url, body, {headers: {Authorization, Content-Type}, timeout})
Request(method, url, body, bearerToken, timeout) ==
  [method |-> method, url |-> url, body |-> body,
   authorization |-> [scheme |-> "Bearer", token |-> bearerToken],
   contentType |-> "application/json", timeout |-> timeout]

\* the text content built from a response that arrived with a success status
SuccessEnvelope(response, message) ==
  [kind |-> "envelope", success |-> TRUE, status |-> response.status,
   data |-> response.data, error |-> Undef, message |-> message]

\* the text content built in a catch block from error.response
FailureEnvelope(error) ==
  [kind |-> "envelope", success |-> FALSE, status |-> error.response.status,
   data |-> Undef,
   error |-> IF Truthy(error.response.data) THEN error.response.data
             ELSE error.message,
   message |-> Undef]

(***************************************************************************)
(* getBearerToken                                                          *)
(***************************************************************************)
\* variant: the configured token is preferred to the one of the call
getBearerToken_EnvFirst(providedToken, jwt) ==
  IF Truthy(jwt) THEN Return(jwt)
  ELSE IF Truthy(providedToken) THEN Return(providedToken)
  ELSE Throw(McpError("InvalidParams", Msg("No bearer token provided.")))

getBearerToken(providedToken, jwt) ==
  IF Truthy(providedToken) THEN Return(providedToken)
  ELSE IF Truthy(jwt) THEN Return(jwt)
  ELSE Throw(McpError("InvalidParams",
                      Msg("No bearer token provided. Either pass bearerToken parameter or set REPORTS_JWT_TOKEN environment variable.")))

(***************************************************************************)
(* The identifier check every identifier-taking dispatcher starts with:    *)
(* !id || !id.match(/^[0-9a-fA-F]{24}$/).  A truthy value that is not a    *)
(* string has no match method and the call faults.                         *)
(***************************************************************************)
\* variant: the pattern lacks its end anchor, /^[0-9a-fA-F]{24}/
checkObjectId_Unanchored(id, what) ==
  IF ~Truthy(id)
  THEN McpError("InvalidParams", Msg("Invalid " \o what \o " format. Must be a valid MongoDB ObjectId (24 characters)"))
  ELSE IF ~IsString(id)
  THEN TypeError(what \o ".match is not a function")
  ELSE IF ~(Len(id.v) >= 24 /\ MatchesObjectId(SubSeq(id.v, 1, 24)))
  THEN McpError("InvalidParams", Msg("Invalid " \o what \o " format. Must be a valid MongoDB ObjectId (24 characters)"))
  ELSE NoError

checkObjectId(id, what) ==
  IF ~Truthy(id)
  THEN McpError("InvalidParams", Msg("Invalid " \o what \o " format. Must be a valid MongoDB ObjectId (24 characters)"))
  ELSE IF ~IsString(id)
  THEN TypeError(what \o ".match is not a function")
  ELSE IF ~MatchesObjectId(id.v)
  THEN McpError("InvalidParams", Msg("Invalid " \o what \o " format. Must be a valid MongoDB ObjectId (24 characters)"))
  ELSE NoError

(***************************************************************************)
(* The catch block shared, line for line, by the nine dispatchers; url is  *)
(* the address the block of that dispatcher prints.                        *)
(***************************************************************************)
\* variant: a 5xx answer is thrown as a network error
catchBlock_Throws5xx(error, url) ==
  IF error.cls = "McpError" THEN Throw(error)
  ELSE IF error.response.t = "response" /\ error.response.status < 500
  THEN Return(FailureEnvelope(error))
  ELSE IF error.request
  THEN Throw(McpError("InternalError",
                      [text |-> "Network error: Unable to reach the API at",
                       url |-> url, cause |-> "", id |-> Undef]))
  ELSE Throw(McpError("InternalError",
                      [text |-> "Request setup error", url |-> NoUrl,
                       cause |-> error.message.text, id |-> Undef]))

catchBlock(error, url) ==
  IF error.cls = "McpError" THEN Throw(error)
  ELSE IF error.response.t = "response" THEN Return(FailureEnvelope(error))
  ELSE IF error.request
  THEN Throw(McpError("InternalError",
                      [text |-> "Network error: Unable to reach the API at",
                       url |-> url, cause |-> "", id |-> Undef]))
  ELSE Throw(McpError("InternalError",
                      [text |-> "Request setup error", url |-> NoUrl,
                       cause |-> error.message.text, id |-> Undef]))

SubjectMsg(text, id) == [text |-> text, url |-> NoUrl, cause |-> "", id |-> id]

(***************************************************************************)
(* updateReport                                                            *)
(***************************************************************************)
updateReport(providedToken, reportId, reportData, jwt) ==
  LET bearerToken == getBearerToken(providedToken, jwt) IN
  IF bearerToken.t = "throw" THEN bearerToken
  ELSE IF checkObjectId(reportId, "reportId").cls /= "none"
  THEN Throw(checkObjectId(reportId, "reportId"))
  ELSE IF Get(reportData, "status").t /= "undefined"
          /\ ~Includes(validStatuses, Get(reportData, "status"))
  THEN Throw(McpError("InvalidParams", Msg("Status must be one of: Draft, In Progress, Submitted, Reviewed, Closed")))
  ELSE Await(Request("PUT", Url(REPORTS_ENDPOINT, <<reportId>>), reportData,
                     bearerToken.value, 15000))

updateReportThen(response, reportId) ==
  SuccessEnvelope(response, SubjectMsg("Successfully updated report", reportId))

updateReportCatch(error, reportId) ==
  catchBlock(error, Url(REPORTS_ENDPOINT, <<reportId>>))

(***************************************************************************)
(* getReport                                                               *)
(***************************************************************************)
getReport(providedToken, reportId, jwt) ==
  LET bearerToken == getBearerToken(providedToken, jwt) IN
  IF bearerToken.t = "throw" THEN bearerToken
  ELSE IF checkObjectId(reportId, "reportId").cls /= "none"
  THEN Throw(checkObjectId(reportId, "reportId"))
  ELSE Await(Request("GET", Url(REPORTS_ENDPOINT, <<reportId>>), Undef,
                     bearerToken.value, 10000))

getReportThen(response, reportId) ==
  SuccessEnvelope(response, SubjectMsg("Retrieved report", reportId))

getReportCatch(error, reportId) ==
  catchBlock(error, Url(REPORTS_ENDPOINT, <<reportId>>))

(***************************************************************************)
(* getAllReports                                                           *)
(***************************************************************************)
getAllReports(providedToken, jwt) ==
  LET bearerToken == getBearerToken(providedToken, jwt) IN
  IF bearerToken.t = "throw" THEN bearerToken
  ELSE Await(Request("GET", Url(REPORTS_ENDPOINT, <<>>), Undef,
                     bearerToken.value, 10000))

getAllReportsThen(response) ==
  SuccessEnvelope(response, Msg("Retrieved N reports"))

getAllReportsCatch(error) ==
  catchBlock(error, Url(REPORTS_ENDPOINT, <<>>))

(***************************************************************************)
(* createReport                                                            *)
(***************************************************************************)
OrElse(x, default) == IF Truthy(x) THEN x ELSE default

\* variant: the templateId is passed on as it came, without the default
createReport_NoDefault(providedToken, reportData, jwt) ==
  LET bearerToken == getBearerToken(providedToken, jwt)
      payload ==
        Obj([k \in {"title", "platform", "templateId", "testers"} |->
               CASE k = "title" -> OrElse(Get(reportData, "title"), Str(<<>>))
                 [] k = "platform" -> OrElse(Get(reportData, "platform"), Str(<<>>))
                 [] k = "templateId" -> Get(reportData, "templateId")
                 [] k = "testers" -> OrElse(Get(reportData, "testers"), Arr(<<>>))])
  IN
  IF bearerToken.t = "throw" THEN bearerToken
  ELSE Await(Request("POST", Url(REPORTS_ENDPOINT, <<>>), payload,
                     bearerToken.value, 10000))

createReport(providedToken, reportData, jwt) ==
  LET bearerToken == getBearerToken(providedToken, jwt)
      payload ==
        Obj([k \in {"title", "platform", "templateId", "testers"} |->
               CASE k = "title" -> OrElse(Get(reportData, "title"), Str(<<>>))
                 [] k = "platform" -> OrElse(Get(reportData, "platform"), Str(<<>>))
                 [] k = "templateId" ->
                      OrElse(Get(reportData, "templateId"), Str(DefaultTemplateId))
                 [] k = "testers" -> OrElse(Get(reportData, "testers"), Arr(<<>>))])
  IN
  IF bearerToken.t = "throw" THEN bearerToken
  ELSE Await(Request("POST", Url(REPORTS_ENDPOINT, <<>>), payload,
                     bearerToken.value, 10000))

createReportThen(response) ==
  SuccessEnvelope(response, Msg("Report created successfully"))

createReportCatch(error) ==
  catchBlock(error, Url(REPORTS_ENDPOINT, <<>>))

(***************************************************************************)
(* getVulnerability                                                        *)
(***************************************************************************)
getVulnerability(providedToken, vulnerabilityId, jwt) ==
  LET bearerToken == getBearerToken(providedToken, jwt) IN
  IF bearerToken.t = "throw" THEN bearerToken
  ELSE IF checkObjectId(vulnerabilityId, "vulnerabilityId").cls /= "none"
  THEN Throw(checkObjectId(vulnerabilityId, "vulnerabilityId"))
  ELSE Await(Request("GET", Url(VULNERABILITY_ENDPOINT, <<vulnerabilityId>>),
                     Undef, bearerToken.value, 10000))

getVulnerabilityThen(response, vulnerabilityId) ==
  SuccessEnvelope(response, SubjectMsg("Retrieved vulnerability", vulnerabilityId))

getVulnerabilityCatch(error, vulnerabilityId) ==
  catchBlock(error, Url(VULNERABILITY_ENDPOINT, <<vulnerabilityId>>))

(***************************************************************************)
(* Field checks shared by updateVulnerability and createVulnerabilities.   *)
(***************************************************************************)
\* variant: the bounds of the score are exclusive
checkVulnerabilityFields_ExclusiveScore(v) ==
  IF Get(v, "cvssScore").t /= "undefined"
     /\ (Get(v, "cvssScore").t /= "number"
         \/ Get(v, "cvssScore").v <= 0 \/ Get(v, "cvssScore").v >= 100)
  THEN McpError("InvalidParams", Msg("CVSS Score must be a number between 0.0 and 10.0"))
  ELSE IF Get(v, "severity").t /= "undefined"
          /\ ~Includes(validSeverities, Get(v, "severity"))
  THEN McpError("InvalidParams", Msg("Severity must be one of: Informational, Low, Medium, High, Critical"))
  ELSE IF Get(v, "cvss").t /= "undefined"
          /\ (~IsString(Get(v, "cvss"))
              \/ ~StartsWith(Get(v, "cvss").v, CvssPrefix))
  THEN McpError("InvalidParams", Msg("CVSS vector must be a valid CVSS 3.1 string starting with \"CVSS:3.1/\""))
  ELSE NoError

\* variant: the severity is tested only when truthy
checkVulnerabilityFields_SeverityTruthy(v) ==
  IF Get(v, "cvssScore").t /= "undefined"
     /\ (Get(v, "cvssScore").t /= "number"
         \/ Get(v, "cvssScore").v < 0 \/ Get(v, "cvssScore").v > 100)
  THEN McpError("InvalidParams", Msg("CVSS Score must be a number between 0.0 and 10.0"))
  ELSE IF Truthy(Get(v, "severity"))
          /\ ~Includes(validSeverities, Get(v, "severity"))
  THEN McpError("InvalidParams", Msg("Severity must be one of: Informational, Low, Medium, High, Critical"))
  ELSE IF Get(v, "cvss").t /= "undefined"
          /\ (~IsString(Get(v, "cvss"))
              \/ ~StartsWith(Get(v, "cvss").v, CvssPrefix))
  THEN McpError("InvalidParams", Msg("CVSS vector must be a valid CVSS 3.1 string starting with \"CVSS:3.1/\""))
  ELSE NoError

\* variant: any vector that starts with "CVSS:" passes
checkVulnerabilityFields_AnyVersion(v) ==
  IF Get(v, "cvssScore").t /= "undefined"
     /\ (Get(v, "cvssScore").t /= "number"
         \/ Get(v, "cvssScore").v < 0 \/ Get(v, "cvssScore").v > 100)
  THEN McpError("InvalidParams", Msg("CVSS Score must be a number between 0.0 and 10.0"))
  ELSE IF Get(v, "severity").t /= "undefined"
          /\ ~Includes(validSeverities, Get(v, "severity"))
  THEN McpError("InvalidParams", Msg("Severity must be one of: Informational, Low, Medium, High, Critical"))
  ELSE IF Get(v, "cvss").t /= "undefined"
          /\ (~IsString(Get(v, "cvss"))
              \/ ~StartsWith(Get(v, "cvss").v, SubSeq(CvssPrefix, 1, 5)))
  THEN McpError("InvalidParams", Msg("CVSS vector must be a valid CVSS 3.1 string starting with \"CVSS:3.1/\""))
  ELSE NoError

checkVulnerabilityFields(v) ==
  IF Get(v, "cvssScore").t /= "undefined"
     /\ (Get(v, "cvssScore").t /= "number"
         \/ Get(v, "cvssScore").v < 0 \/ Get(v, "cvssScore").v > 100)
  THEN McpError("InvalidParams", Msg("CVSS Score must be a number between 0.0 and 10.0"))
  ELSE IF Get(v, "severity").t /= "undefined"
          /\ ~Includes(validSeverities, Get(v, "severity"))
  THEN McpError("InvalidParams", Msg("Severity must be one of: Informational, Low, Medium, High, Critical"))
  ELSE IF Get(v, "cvss").t /= "undefined"
          /\ (~IsString(Get(v, "cvss"))
              \/ ~StartsWith(Get(v, "cvss").v, CvssPrefix))
  THEN McpError("InvalidParams", Msg("CVSS vector must be a valid CVSS 3.1 string starting with \"CVSS:3.1/\""))
  ELSE NoError

(***************************************************************************)
(* updateVulnerability                                                     *)
(***************************************************************************)
updateVulnerability(providedToken, vulnerabilityId, vulnerabilityData, jwt) ==
  LET bearerToken == getBearerToken(providedToken, jwt) IN
  IF bearerToken.t = "throw" THEN bearerToken
  ELSE IF checkObjectId(vulnerabilityId, "vulnerabilityId").cls /= "none"
  THEN Throw(checkObjectId(vulnerabilityId, "vulnerabilityId"))
  ELSE IF checkVulnerabilityFields(vulnerabilityData).cls /= "none"
  THEN Throw(checkVulnerabilityFields(vulnerabilityData))
  ELSE Await(Request("PUT", Url(VULNERABILITY_ENDPOINT, <<vulnerabilityId>>),
                     vulnerabilityData, bearerToken.value, 15000))

updateVulnerabilityThen(response, vulnerabilityId) ==
  SuccessEnvelope(response,
                  SubjectMsg("Successfully updated vulnerability", vulnerabilityId))

updateVulnerabilityCatch(error, vulnerabilityId) ==
  catchBlock(error, Url(VULNERABILITY_ENDPOINT, <<vulnerabilityId>>))

(***************************************************************************)
(* deleteVulnerability                                                     *)
(***************************************************************************)
deleteVulnerability(providedToken, vulnerabilityId, jwt) ==
  LET bearerToken == getBearerToken(providedToken, jwt) IN
  IF bearerToken.t = "throw" THEN bearerToken
  ELSE IF checkObjectId(vulnerabilityId, "vulnerabilityId").cls /= "none"
  THEN Throw(checkObjectId(vulnerabilityId, "vulnerabilityId"))
  ELSE Await(Request("DELETE", Url(VULNERABILITY_ENDPOINT, <<vulnerabilityId>>),
                     Undef, bearerToken.value, 10000))

deleteVulnerabilityThen(response, vulnerabilityId) ==
  SuccessEnvelope(response,
                  SubjectMsg("Successfully deleted vulnerability", vulnerabilityId))

deleteVulnerabilityCatch(error, vulnerabilityId) ==
  catchBlock(error, Url(VULNERABILITY_ENDPOINT, <<vulnerabilityId>>))

(***************************************************************************)
(* getVulnerabilities                                                      *)
(***************************************************************************)
getVulnerabilities(providedToken, reportId, jwt) ==
  LET bearerToken == getBearerToken(providedToken, jwt) IN
  IF bearerToken.t = "throw" THEN bearerToken
  ELSE IF checkObjectId(reportId, "reportId").cls /= "none"
  THEN Throw(checkObjectId(reportId, "reportId"))
  ELSE Await(Request("GET",
                     Url(VULNERABILITY_ENDPOINT, <<Str(PathReport), reportId>>),
                     Undef, bearerToken.value, 10000))

getVulnerabilitiesThen(response, reportId) ==
  SuccessEnvelope(response,
                  SubjectMsg("Retrieved vulnerabilities for report", reportId))

\* variant: the message names the endpoint without the /report segment
getVulnerabilitiesCatch_WrongUrl(error, reportId) ==
  catchBlock(error, Url(VULNERABILITY_ENDPOINT, <<reportId>>))

getVulnerabilitiesCatch(error, reportId) ==
  catchBlock(error, Url(VULNERABILITY_ENDPOINT, <<Str(PathReport), reportId>>))

(***************************************************************************)
(* createVulnerabilities                                                   *)
(***************************************************************************)
\* if (vuln.<k>) vuln.<k> = formatAsHTML(vuln.<k>, kind)
FormatIfTruthy(vuln, k, kind) ==
  With(vuln, LAMBDA v :
    IF Truthy(Get(v, k)) THEN Put(v, k, formatAsHTML(Get(v, k), kind))
    ELSE v)

\* variant: the impact of an element is formatted as a paragraph
validateAndFormat_ImpactAsParagraph(vuln) ==
  IF vuln.t \in {"null", "undefined"}
  THEN [vuln |-> vuln,
        error |-> TypeError("Cannot read properties of " \o vuln.t \o " (reading 'title')")]
  ELSE IF ~Truthy(Get(vuln, "title")) \/ ~IsString(Get(vuln, "title"))
  THEN [vuln |-> vuln,
        error |-> McpError("InvalidParams", Msg("Each vulnerability must have a title (string)"))]
  ELSE IF ~Truthy(Get(vuln, "description")) \/ ~IsString(Get(vuln, "description"))
  THEN [vuln |-> vuln,
        error |-> McpError("InvalidParams", Msg("Each vulnerability must have a description (HTML string)"))]
  ELSE LET v1 == Put(vuln, "description",
                     formatAsHTML(Get(vuln, "description"), "paragraph"))
           v2 == FormatIfTruthy(v1, "details", "paragraph")
           v3 == FormatIfTruthy(v2, "impact", "paragraph")
           v4 == FormatIfTruthy(v3, "remediation", "list")
       IN With(v4, LAMBDA formatted :
            [vuln |-> formatted, error |-> checkVulnerabilityFields(formatted)])

\* one pass of the loop body: the element as the pass leaves it, and the
\* error the pass throws (NoError when it completes)
validateAndFormat(vuln) ==
  IF vuln.t \in {"null", "undefined"}
  THEN [vuln |-> vuln,
        error |-> TypeError("Cannot read properties of " \o vuln.t \o " (reading 'title')")]
  ELSE IF ~Truthy(Get(vuln, "title")) \/ ~IsString(Get(vuln, "title"))
  THEN [vuln |-> vuln,
        error |-> McpError("InvalidParams", Msg("Each vulnerability must have a title (string)"))]
  ELSE IF ~Truthy(Get(vuln, "description")) \/ ~IsString(Get(vuln, "description"))
  THEN [vuln |-> vuln,
        error |-> McpError("InvalidParams", Msg("Each vulnerability must have a description (HTML string)"))]
  ELSE LET v1 == Put(vuln, "description",
                     formatAsHTML(Get(vuln, "description"), "paragraph"))
           v2 == FormatIfTruthy(v1, "details", "paragraph")
           v3 == FormatIfTruthy(v2, "impact", "list")
           v4 == FormatIfTruthy(v3, "remediation", "list")
       IN With(v4, LAMBDA formatted :
            [vuln |-> formatted, error |-> checkVulnerabilityFields(formatted)])

\* variant: only the first element of the batch is validated
validateLoop_FirstOnly(vulnerabilities, i) ==
  IF i > Len(vulnerabilities)
  THEN [vulnerabilities |-> vulnerabilities, error |-> NoError]
  ELSE With(validateAndFormat(vulnerabilities[i]), LAMBDA pass :
         [vulnerabilities |-> [vulnerabilities EXCEPT ![i] = pass.vuln],
          error |-> pass.error])

\* for (const vuln of vulnerabilities) from element i on
RECURSIVE validateLoop(_, _)
validateLoop(vulnerabilities, i) ==
  IF i > Len(vulnerabilities)
  THEN [vulnerabilities |-> vulnerabilities, error |-> NoError]
  ELSE With(validateAndFormat(vulnerabilities[i]), LAMBDA pass :
         With([vulnerabilities EXCEPT ![i] = pass.vuln], LAMBDA after :
           IF pass.error.cls /= "none"
           THEN [vulnerabilities |-> after, error |-> pass.error]
           ELSE validateLoop(after, i + 1)))

\* the result carries the array as the loop left it: its elements are the
\* caller's objects, assigned to in place
createVulnerabilities(providedToken, reportId, vulnerabilities, jwt) ==
  LET bearerToken == getBearerToken(providedToken, jwt)
      list == IF vulnerabilities.t /= "array" THEN <<vulnerabilities>>
              ELSE vulnerabilities.v
  IN
  IF bearerToken.t = "throw"
  THEN bearerToken @@ [vulnerabilities |-> list]
  ELSE IF checkObjectId(reportId, "reportId").cls /= "none"
  THEN Throw(checkObjectId(reportId, "reportId")) @@ [vulnerabilities |-> list]
  ELSE With(validateLoop(list, 1), LAMBDA loop :
         IF loop.error.cls /= "none"
         THEN Throw(loop.error) @@ [vulnerabilities |-> loop.vulnerabilities]
         ELSE Await(Request("POST", Url(VULNERABILITY_ENDPOINT, <<reportId>>),
                            Arr(loop.vulnerabilities), bearerToken.value, 15000))
              @@ [vulnerabilities |-> loop.vulnerabilities])

createVulnerabilitiesThen(response, reportId) ==
  SuccessEnvelope(response,
                  SubjectMsg("Successfully created N vulnerability(ies) for report", reportId))

createVulnerabilitiesCatch(error, reportId) ==
  catchBlock(error, Url(VULNERABILITY_ENDPOINT, <<reportId>>))

(***************************************************************************)
(* The tool-call handler: the switch on the tool name, and its catch.      *)
(***************************************************************************)
\* try { r } catch (error) { caught }: caught is the outcome of the catch
\* block on r.error
TryCatch(r, caught) ==
  IF r.t = "throw" THEN [caught EXCEPT !.raised = r.error] @@ r ELSE r

\* variant: if (args.<k>) data.<k> = args.<k>
CopyIfDefined_Truthy(data, args, k) ==
  IF Truthy(Get(args, k)) THEN Put(data, k, Get(args, k)) ELSE data

\* if (args.<k> !== undefined) data.<k> = args.<k>
CopyIfDefined(data, args, k) ==
  IF Get(args, k).t /= "undefined" THEN Put(data, k, Get(args, k)) ELSE data

\* if (args.<k> !== undefined) data.<k> = formatAsHTML(args.<k>, kind)
FormatIfDefined(data, args, k, kind) ==
  IF Get(args, k).t /= "undefined"
  THEN Put(data, k, formatAsHTML(Get(args, k), kind))
  ELSE data

\* the summary object of update_report
buildSummary(args) ==
  LET s1 == IF Get(args, "summaryDescription").t /= "undefined"
            THEN Put(EmptyObject, "description",
                     formatAsHTML(Get(args, "summaryDescription"), "paragraph"))
            ELSE EmptyObject
  IN IF Get(args, "summaryKeyFindings").t /= "undefined"
     THEN Put(s1, "keyFindings",
              formatAsHTML(Get(args, "summaryKeyFindings"), "list"))
     ELSE s1

\* reportUpdateData of update_report
buildReportUpdateData(args) ==
  LET d1 == CopyIfDefined(EmptyObject, args, "title")
      d2 == CopyIfDefined(d1, args, "platform")
      d3 == FormatIfDefined(d2, args, "goal", "paragraph")
      d4 == FormatIfDefined(d3, args, "scope", "paragraph")
      d5 == FormatIfDefined(d4, args, "recommendations", "list")
      d6 == CopyIfDefined(d5, args, "status")
  IN IF Get(args, "summaryDescription").t /= "undefined"
        \/ Get(args, "summaryKeyFindings").t /= "undefined"
     THEN Put(d6, "summary", buildSummary(args))
     ELSE d6

\* updateData of update_vulnerability
buildUpdateData(args) ==
  LET d1 == CopyIfDefined(EmptyObject, args, "title")
      d2 == FormatIfDefined(d1, args, "description", "paragraph")
      d3 == FormatIfDefined(d2, args, "details", "paragraph")
      d4 == FormatIfDefined(d3, args, "impact", "list")
      d5 == FormatIfDefined(d4, args, "remediation", "list")
      d6 == CopyIfDefined(d5, args, "cvss")
      d7 == CopyIfDefined(d6, args, "cvssScore")
      d8 == CopyIfDefined(d7, args, "severity")
  IN CopyIfDefined(d8, args, "taskId")

\* variant: the test for an empty patch is missing
isEmptyPatch_Never(data) == FALSE

\* Object.keys(data).length === 0
isEmptyPatch(data) == DOMAIN data.v = {}

\* variant: the catalogue lists a tool the switch has no case for
listTools_Unrouted ==
  <<"update_report", "get_report", "get_all_reports", "create_report",
    "get_vulnerability", "update_vulnerability", "delete_vulnerability",
    "get_vulnerabilities", "create_vulnerabilities", "drop_report">>

\* the names of the tools the ListTools handler returns, in its order
listTools ==
  <<"update_report", "get_report", "get_all_reports", "create_report",
    "get_vulnerability", "update_vulnerability", "delete_vulnerability",
    "get_vulnerabilities", "create_vulnerabilities">>

ToolNames ==
  {"get_report", "update_report", "get_all_reports", "create_report",
   "get_vulnerabilities", "get_vulnerability", "update_vulnerability",
   "delete_vulnerability", "create_vulnerabilities"}

\* the property of args each case of the switch reads first
FirstRead(name) ==
  CASE name \in {"get_report", "update_report", "get_vulnerabilities",
                 "create_vulnerabilities"} -> "reportId"
    [] name \in {"get_vulnerability", "update_vulnerability",
                 "delete_vulnerability"} -> "vulnerabilityId"
    [] name = "get_all_reports" -> "bearerToken"
    [] OTHER -> "title"

Required(text) == Throw(McpError("InvalidParams", Msg(text)))

\* the body of the try block: switch (name)
route(name, args, jwt) ==
  LET token == Get(args, "bearerToken")
      reportId == Get(args, "reportId")
      vulnerabilityId == Get(args, "vulnerabilityId")
  IN
  CASE name \in ToolNames /\ args.t = "undefined" ->
         Throw(TypeError("Cannot read properties of undefined (reading '"
                         \o FirstRead(name) \o "')"))
    [] name = "get_report" /\ args.t /= "undefined" ->
         IF ~Truthy(reportId) THEN Required("Report ID is required")
         ELSE With(getReport(token, reportId, jwt), LAMBDA r :
                TryCatch(r, getReportCatch(r.error, reportId)))
    [] name = "update_report" /\ args.t /= "undefined" ->
         IF ~Truthy(reportId) THEN Required("Report ID is required")
         ELSE With(buildReportUpdateData(args), LAMBDA reportUpdateData :
                IF isEmptyPatch(reportUpdateData)
                THEN Required("At least one field must be provided to update")
                ELSE With(updateReport(token, reportId, reportUpdateData, jwt),
                          LAMBDA r :
                            TryCatch(r, updateReportCatch(r.error, reportId))))
    [] name = "get_all_reports" /\ args.t /= "undefined" ->
         With(getAllReports(token, jwt), LAMBDA r :
           TryCatch(r, getAllReportsCatch(r.error)))
    [] name = "create_report" /\ args.t /= "undefined" ->
         IF ~Truthy(Get(args, "title")) THEN Required("Report title is required")
         ELSE With(createReport(token, Obj([k \in {"title", "platform", "templateId", "testers"} |-> Get(args, k)]), jwt), LAMBDA r :
                TryCatch(r, createReportCatch(r.error)))
    [] name = "get_vulnerabilities" /\ args.t /= "undefined" ->
         IF ~Truthy(reportId) THEN Required("Report ID is required")
         ELSE With(getVulnerabilities(token, reportId, jwt), LAMBDA r :
                TryCatch(r, getVulnerabilitiesCatch(r.error, reportId)))
    [] name = "get_vulnerability" /\ args.t /= "undefined" ->
         IF ~Truthy(vulnerabilityId) THEN Required("Vulnerability ID is required")
         ELSE With(getVulnerability(token, vulnerabilityId, jwt), LAMBDA r :
                TryCatch(r, getVulnerabilityCatch(r.error, vulnerabilityId)))
    [] name = "update_vulnerability" /\ args.t /= "undefined" ->
         IF ~Truthy(vulnerabilityId) THEN Required("Vulnerability ID is required")
         ELSE With(buildUpdateData(args), LAMBDA updateData :
                IF isEmptyPatch(updateData)
                THEN Required("At least one field must be provided to update")
                ELSE With(updateVulnerability(token, vulnerabilityId, updateData, jwt),
                          LAMBDA r :
                            TryCatch(r, updateVulnerabilityCatch(r.error,
                                                                 vulnerabilityId))))
    [] name = "delete_vulnerability" /\ args.t /= "undefined" ->
         IF ~Truthy(vulnerabilityId) THEN Required("Vulnerability ID is required")
         ELSE With(deleteVulnerability(token, vulnerabilityId, jwt), LAMBDA r :
                TryCatch(r, deleteVulnerabilityCatch(r.error, vulnerabilityId)))
    [] name = "create_vulnerabilities" /\ args.t /= "undefined" ->
         IF ~Truthy(reportId) THEN Required("Report ID is required")
         ELSE IF ~Truthy(Get(args, "vulnerabilities"))
                 \/ Get(args, "vulnerabilities").t /= "array"
                 \/ Len(Get(args, "vulnerabilities").v) = 0
         THEN Required("At least one vulnerability is required")
         ELSE With(createVulnerabilities(token, reportId, Get(args, "vulnerabilities"), jwt), LAMBDA r :
                TryCatch(r, createVulnerabilitiesCatch(r.error, reportId)))
    [] OTHER ->
         Throw(McpError("MethodNotFound", Msg("Unknown tool: " \o name)))

\* variant: the wrapping error drops the message of the fault
handlerCatch_NoMessage(error) ==
  IF error.cls = "McpError" THEN error
  ELSE McpError("InternalError",
                [text |-> "Tool execution failed", url |-> NoUrl,
                 cause |-> "", id |-> Undef])

\* variant: the error is thrown on as it came
handlerCatch_Rethrow(error) == error

\* the catch of the handler
handlerCatch(error) ==
  IF error.cls = "McpError" THEN error
  ELSE McpError("InternalError",
                [text |-> "Tool execution failed", url |-> NoUrl,
                 cause |-> error.message.text, id |-> Undef])

\* the handler from its entry to its first suspension (or its end)
handler(name, args, jwt) ==
  With(route(name, args, jwt), LAMBDA r :
    IF r.t = "throw" THEN [r EXCEPT !.error = handlerCatch(r.error)] ELSE r)

\* the dispatcher of a tool resumed with a response of success status
thenOf(name, response, args) ==
  CASE name = "get_report" -> getReportThen(response, Get(args, "reportId"))
    [] name = "update_report" -> updateReportThen(response, Get(args, "reportId"))
    [] name = "get_all_reports" -> getAllReportsThen(response)
    [] name = "create_report" -> createReportThen(response)
    [] name = "get_vulnerabilities" ->
         getVulnerabilitiesThen(response, Get(args, "reportId"))
    [] name = "get_vulnerability" ->
         getVulnerabilityThen(response, Get(args, "vulnerabilityId"))
    [] name = "update_vulnerability" ->
         updateVulnerabilityThen(response, Get(args, "vulnerabilityId"))
    [] name = "delete_vulnerability" ->
         deleteVulnerabilityThen(response, Get(args, "vulnerabilityId"))
    [] name = "create_vulnerabilities" ->
         createVulnerabilitiesThen(response, Get(args, "reportId"))

\* the dispatcher of a tool resumed with the rejection of its request
catchOf(name, error, args) ==
  CASE name = "get_report" -> getReportCatch(error, Get(args, "reportId"))
    [] name = "update_report" -> updateReportCatch(error, Get(args, "reportId"))
    [] name = "get_all_reports" -> getAllReportsCatch(error)
    [] name = "create_report" -> createReportCatch(error)
    [] name = "get_vulnerabilities" ->
         getVulnerabilitiesCatch(error, Get(args, "reportId"))
    [] name = "get_vulnerability" ->
         getVulnerabilityCatch(error, Get(args, "vulnerabilityId"))
    [] name = "update_vulnerability" ->
         updateVulnerabilityCatch(error, Get(args, "vulnerabilityId"))
    [] name = "delete_vulnerability" ->
         deleteVulnerabilityCatch(error, Get(args, "vulnerabilityId"))
    [] name = "create_vulnerabilities" ->
         createVulnerabilitiesCatch(error, Get(args, "reportId"))

\* the handler resumed when the awaited promise settles: settled is
\* Return(response) or Throw(axios error)
resumed(name, args, settled) ==
  With(IF settled.t = "return"
       THEN Return(thenOf(name, settled.value, args))
       ELSE TryCatch(settled, catchOf(name, settled.error, args)),
       LAMBDA r :
         IF r.t = "throw" THEN [r EXCEPT !.error = handlerCatch(r.error)] ELSE r)

(***************************************************************************)
(* The argument universe the calls are drawn from.                         *)
(***************************************************************************)
ValidId == DefaultTemplateId

UpperId ==
  <<"A", "B", "C", "D", "E", "F", "a", "b", "c", "d", "e", "f",
    "0", "1", "2", "3", "4", "5", "6", "7", "8", "9", "A", "f">>

IdValues ==
  {Str(<<>>), Str(<<"1", "2", "3">>), Str(ValidId), Str(UpperId),
   Str(Append(ValidId, "0")), Str([ValidId EXCEPT ![24] = "g"]),
   Str(SubSeq(ValidId, 1, 23)), Num(123)}

TokenA == <<"t", "o", "k", "A">>
TokenEnv == <<"e", "n", "v">>

PlainText == <<"a", " ", "b">>
ListText == <<"a", ";", " ", "b">>
HtmlText == <<"<", "b", ">">>

VulnBase ==
  [title |-> Str(<<"T">>), description |-> Str(PlainText)]

VulnObjects ==
  {Obj(VulnBase),
   Obj(VulnBase @@ [details |-> Str(HtmlText), impact |-> Str(ListText),
                    remediation |-> Str(PlainText), cvssScore |-> Num(100),
                    severity |-> Str(validSeverities[4]),
                    cvss |-> Str(CvssPrefix \o <<"A", "V", ":", "N">>)]),
   Obj([description |-> Str(PlainText)]),
   Obj([title |-> Str(<<"T">>), impact |-> Str(ListText)]),
   Obj(VulnBase @@ [cvssScore |-> Num(101)]),
   Obj(VulnBase @@ [impact |-> Str(ListText), severity |-> Str(<<"S">>)]),
   Obj(VulnBase @@ [details |-> Str(PlainText),
                    cvss |-> Str(<<"C", "V", "S", "S", ":", "2", ".", "0", "/">>)]),
   Null}

\* "CVSS:2.0/AV:N"
Cvss2Vector ==
  <<"C", "V", "S", "S", ":", "2", ".", "0", "/", "A", "V", ":", "N">>

\* "CVSS:3.1/AV:N/AC:L/PR:N/UI:N/S:U/C:L/I:N/A:N"
Cvss31Vector ==
  CvssPrefix \o
  <<"A", "V", ":", "N", "/", "A", "C", ":", "L", "/", "P", "R", ":", "N", "/",
    "U", "I", ":", "N", "/", "S", ":", "U", "/", "C", ":", "L", "/",
    "I", ":", "N", "/", "A", ":", "N">>

\* elements that differ from VulnBase in one of the checked or formatted fields
FieldProbes ==
  {Obj(VulnBase @@ [cvssScore |-> x]) :
     x \in {Num(-1), Num(0), Num(100), Num(101), Str(<<"5">>), Null}}
  \cup {Obj(VulnBase @@ [severity |-> x]) :
          x \in {Str(validSeverities[i]) : i \in 1..Len(validSeverities)}
                \cup {Str(<<"S">>), Str(<<>>), Null}}
  \cup {Obj(VulnBase @@ [cvss |-> x]) :
          x \in {Str(Cvss31Vector), Str(CvssPrefix),
                 Str(Cvss2Vector), Str(SubSeq(CvssPrefix, 1, 8)), Num(31)}}
  \cup {Obj([title |-> Str(<<"T">>), description |-> Str(ListText)]),
        Obj(VulnBase @@ [details |-> Str(ListText)]),
        Obj(VulnBase @@ [remediation |-> Str(ListText)]),
        Obj(VulnBase @@ [impact |-> Str(<<>>), remediation |-> Num(5)])}

\* batches of VulnBase elements with one probe at any position
ProbeBatches ==
  {[i \in 1..n |-> IF i = at THEN x ELSE Obj(VulnBase)] :
     n \in 1..MaxBatch, at \in 1..MaxBatch, x \in FieldProbes}

RECURSIVE SeqsUpTo(_, _)
SeqsUpTo(S, n) ==
  IF n = 0 THEN {<<>>}
  ELSE SeqsUpTo(S, n - 1)
       \cup {Append(q, x) : q \in {q \in SeqsUpTo(S, n - 1) : Len(q) = n - 1},
                            x \in S}

ArgKeys(name) ==
  CASE name = "get_all_reports" -> {"bearerToken"}
    [] name \in {"get_report", "get_vulnerabilities"} -> {"bearerToken", "reportId"}
    [] name \in {"get_vulnerability", "delete_vulnerability"} ->
         {"bearerToken", "vulnerabilityId"}
    [] name = "create_report" ->
         {"bearerToken", "title", "platform", "templateId", "testers"}
    [] name = "update_report" ->
         {"bearerToken", "reportId", "title", "platform", "goal", "scope",
          "summaryDescription", "summaryKeyFindings", "recommendations", "status"}
    [] name = "update_vulnerability" ->
         {"bearerToken", "vulnerabilityId", "title", "description", "details",
          "impact", "remediation", "cvss", "cvssScore", "severity", "taskId"}
    [] name = "create_vulnerabilities" ->
         {"bearerToken", "reportId", "vulnerabilities"}
    [] OTHER -> {"bearerToken", "reportId"}

Values(k) ==
  CASE k = "bearerToken" -> {Str(<<>>), Str(TokenA)}
    [] k \in {"reportId", "vulnerabilityId"} -> IdValues
    [] k \in {"title", "platform", "goal", "scope", "summaryDescription"} ->
         {Str(<<>>), Str(PlainText)}
    [] k \in {"description", "details"} ->
         {Str(<<>>), Str(PlainText), Str(ListText)}
    [] k \in {"summaryKeyFindings", "recommendations", "impact", "remediation"} ->
         {Str(ListText), Str(HtmlText)}
    [] k = "templateId" -> {Str(UpperId), Str(<<>>)}
    [] k = "testers" -> {Arr(<<>>), Arr(<<Str(UpperId)>>)}
    [] k = "status" ->
         {Str(validStatuses[i]) : i \in 1..Len(validStatuses)}
         \cup {Str(<<"O">>), Str(<<>>)}
    [] k = "cvss" ->
         {Str(Cvss31Vector), Str(CvssPrefix),
          Str(Cvss2Vector), Str(SubSeq(CvssPrefix, 1, 8)), Num(31)}
    [] k = "cvssScore" -> {Num(-1), Num(0), Num(100), Num(101), Str(<<"5">>)}
    [] k = "severity" ->
         {Str(validSeverities[i]) : i \in 1..Len(validSeverities)}
         \cup {Str(<<"S">>), Str(<<>>)}
    [] k = "taskId" -> {Str(<<"k">>)}
    [] k = "vulnerabilities" ->
         {Arr(q) : q \in SeqsUpTo(VulnObjects, MaxBatch) \cup ProbeBatches}
         \cup {Obj(VulnBase)}

\* the objects with exactly the keys D
RECURSIVE Objects(_)
Objects(D) ==
  IF D = {} THEN {[j \in {} |-> Undef]}
  ELSE LET k == CHOOSE k \in D : TRUE
       IN {f @@ (k :> x) : f \in Objects(D \ {k}), x \in Values(k)}

\* the argument objects of a call without its batch: at most MaxKeys
\* properties, or no argument object at all
ArgsOf(name) ==
  {Undef} \cup
  {Obj(f) : f \in UNION {Objects(D) :
                           D \in {D \in SUBSET (ArgKeys(name) \ {"vulnerabilities"}) :
                                    Cardinality(D) <= MaxKeys}}}

\* the values of args.vulnerabilities that may be added to the object
\* (Undef: the property stays absent)
BatchesFor(name, args) ==
  IF name = "create_vulnerabilities" /\ args.t = "object"
     /\ Cardinality(DOMAIN args.v) < MaxKeys
  THEN {Undef} \cup Values("vulnerabilities")
  ELSE {Undef}

WithBatch(args, batch) ==
  IF batch.t = "undefined" THEN args ELSE Put(args, "vulnerabilities", batch)

\* names no case of the switch matches
UnknownNames == {"drop_report", "GET_REPORT", ""}

CallNames == ToolNames \cup UnknownNames

ResponseStatuses == {200, 201, 404, 500}
ResponseBodies == {Str(<<>>), Str(<<"d">>)}

(***************************************************************************)
(* The state machine.                                                      *)
(***************************************************************************)
Idle ==
  [pc |-> "idle", name |-> "", original |-> Undef, args |-> Undef,
   sent |-> <<>>, outcome |-> NoValue, raised |-> NoError]

Outcome(r) ==
  CASE r.t = "return" -> r.value
    [] r.t = "throw" -> [kind |-> "error", error |-> r.error]
    [] OTHER -> NoValue

\* the caller's argument object after the synchronous run: the elements of
\* args.vulnerabilities are the objects createVulnerabilities assigned to
ArgsAfter(args, r) ==
  IF "vulnerabilities" \in DOMAIN r
  THEN Put(args, "vulnerabilities",
           IF Get(args, "vulnerabilities").t = "array"
           THEN Arr(r.vulnerabilities) ELSE r.vulnerabilities[1])
  ELSE args

\* the state of a call after the handler ran up to its first suspension
started(name, args, jwt) ==
  With(handler(name, args, jwt), LAMBDA r :
    [pc |-> IF r.t = "await" THEN "awaiting" ELSE "done",
     name |-> name, original |-> args, args |-> ArgsAfter(args, r),
     sent |-> IF r.t = "await" THEN <<r.request>> ELSE <<>>,
     outcome |-> Outcome(r), raised |-> r.raised])

\* variant: a request that got no response is sent once more
settledCall_Retry(call, settled) ==
  IF settled.t = "throw" /\ settled.error.request
     /\ settled.error.response.t = "undefined" /\ Len(call.sent) < 2
  THEN [call EXCEPT !.sent = Append(@, @[1])]
  ELSE With(resumed(call.name, call.args, settled), LAMBDA r :
         [call EXCEPT !.pc = "done", !.outcome = Outcome(r),
                      !.raised = r.raised])

\* the state of a call after its promise settled and the handler ran on
settledCall(call, settled) ==
  With(resumed(call.name, call.args, settled), LAMBDA r :
    [call EXCEPT !.pc = "done", !.outcome = Outcome(r), !.raised = r.raised])

\* no call of formatAsHTML is being followed
NotFormatting ==
  [pc |-> "idle", content |-> Undef, fieldType |-> "", result |-> Undef,
   again |-> Undef]

Init ==
  /\ JWT_TOKEN \in {Undef, Str(TokenEnv)}
  /\ calls = [c \in {1} |-> Idle]
  /\ formatting = NotFormatting

\* the transport delivers a tools/call request to the handler
CallTool ==
  \E c \in DOMAIN calls :
    /\ calls[c].pc = "idle"
    /\ \E name \in CallNames : \E args \in ArgsOf(name) :
         \E batch \in BatchesFor(name, args) :
           \E arguments \in {WithBatch(args, batch)} :
             calls' = [calls EXCEPT ![c] = started(name, arguments, JWT_TOKEN)]
    /\ UNCHANGED <<JWT_TOKEN, formatting>>

\* the upstream API answers the request
Respond ==
  \E c \in DOMAIN calls :
    /\ calls[c].pc = "awaiting"
    /\ \E status \in ResponseStatuses : \E data \in ResponseBodies :
         calls' = [calls EXCEPT ![c] =
                     settledCall(calls[c],
                       IF status >= 200 /\ status < 300
                       THEN Return(Response(status, data))
                       ELSE Throw(AxiosError("Request failed with status code",
                                             Response(status, data), TRUE)))]
    /\ UNCHANGED <<JWT_TOKEN, formatting>>

\* the connection fails: no response is received
ConnectionFailure ==
  \E c \in DOMAIN calls :
    /\ calls[c].pc = "awaiting"
    /\ calls' = [calls EXCEPT ![c] =
                   settledCall(calls[c],
                     Throw(AxiosError("connect ECONNREFUSED", Undef, TRUE)))]
    /\ UNCHANGED <<JWT_TOKEN, formatting>>

\* the timeout of the request expires: no response is received
Timeout ==
  \E c \in DOMAIN calls :
    /\ calls[c].pc = "awaiting"
    /\ calls' = [calls EXCEPT ![c] =
                   settledCall(calls[c],
                     Throw(AxiosError("timeout exceeded", Undef, TRUE)))]
    /\ UNCHANGED <<JWT_TOKEN, formatting>>

\* the request could not be constructed
SetupFailure ==
  \E c \in DOMAIN calls :
    /\ calls[c].pc = "awaiting"
    /\ calls' = [calls EXCEPT ![c] =
                   settledCall(calls[c],
                     Throw(AxiosError("request setup failed", Undef, FALSE)))]
    /\ UNCHANGED <<JWT_TOKEN, formatting>>

\* the result or the error is handed back to the transport
Deliver ==
  \E c \in DOMAIN calls :
    /\ calls[c].pc = "done"
    /\ calls' = [calls EXCEPT ![c] = Idle]
    /\ UNCHANGED <<JWT_TOKEN, formatting>>

Settle == Respond \/ ConnectionFailure \/ Timeout \/ SetupFailure

Next ==
  \/ CallTool
  \/ Respond
  \/ ConnectionFailure
  \/ Timeout
  \/ SetupFailure
  \/ Deliver

Spec == Init /\ [][Next]_vars

\* the upstream answers or the timeout expires; the transport takes results
FairSpec ==
  Spec /\ WF_vars(Settle) /\ WF_vars(Deliver)

(***************************************************************************)
(* formatAsHTML on its own: the function applied to a text, and applied    *)
(* once more to its own result.                                            *)
(***************************************************************************)
Alphabet == {"a", " ", "\t", "\n", ";", ",", "|", "<", ">"}

Texts == SeqsUpTo(Alphabet, MaxText)

FormatInputs == {Str(s) : s \in Texts} \cup {Undef, Null, Num(5)}

\* 'paragraph' is the default of the parameter
FieldTypes == {"paragraph", "list"}

FormatInit ==
  /\ JWT_TOKEN = Undef
  /\ calls = [c \in {1} |-> Idle]
  /\ formatting = NotFormatting

\* formatAsHTML(content, fieldType)
Format ==
  /\ formatting.pc = "idle"
  /\ \E content \in FormatInputs : \E fieldType \in FieldTypes :
       formatting' = [pc |-> "formatted", content |-> content,
                      fieldType |-> fieldType,
                      result |-> formatAsHTML(content, fieldType),
                      again |-> Undef]
  /\ UNCHANGED <<JWT_TOKEN, calls>>

\* the result is formatted once more, as when formatted content is sent back
FormatAgain ==
  /\ formatting.pc = "formatted"
  /\ formatting' = [formatting EXCEPT
                      !.pc = "reformatted",
                      !.again = formatAsHTML(formatting.result,
                                             formatting.fieldType)]
  /\ UNCHANGED <<JWT_TOKEN, calls>>

\* the value is used and the next text is taken
FormatDone ==
  /\ formatting.pc \in {"formatted", "reformatted"}
  /\ formatting' = NotFormatting
  /\ UNCHANGED <<JWT_TOKEN, calls>>

FormatNext ==
  \/ Format
  \/ FormatAgain
  \/ FormatDone

FormatSpec == FormatInit /\ [][FormatNext]_vars

(***************************************************************************)
(* Several calls in flight: the handler is entered again while earlier     *)
(* calls are suspended at their await.                                     *)
(***************************************************************************)
\* variant: a token passed with a call is kept as the process-wide one
credentialAfter_Cached(jwt, providedToken) ==
  IF Truthy(providedToken) THEN providedToken ELSE jwt

\* JWT_TOKEN after getBearerToken(providedToken): it is only read
credentialAfter(jwt, providedToken) == jwt

\* the calls that are interleaved
ConcurrentCalls ==
  {[name |-> "get_report", args |-> Obj([reportId |-> Str(ValidId)])],
   [name |-> "get_vulnerability",
    args |-> Obj([vulnerabilityId |-> Str(<<"1", "2", "3">>)])],
   [name |-> "create_vulnerabilities",
    args |-> Obj([reportId |-> Str(ValidId), bearerToken |-> Str(TokenA),
                  vulnerabilities |->
                    Arr(<<Obj(VulnBase @@ [impact |-> Str(ListText)])>>)])],
   [name |-> "drop_report", args |-> Undef]}

ConcurrentInit ==
  /\ JWT_TOKEN \in {Undef, Str(TokenEnv)}
  /\ calls = [c \in 1..MaxInFlight |-> Idle]
  /\ formatting = NotFormatting

\* the transport delivers a tools/call request while others are in flight
ConcurrentCallTool ==
  \E c \in DOMAIN calls :
    /\ calls[c].pc = "idle"
    /\ \E call \in ConcurrentCalls :
         /\ calls' = [calls EXCEPT
                        ![c] = started(call.name, call.args, JWT_TOKEN)]
         /\ JWT_TOKEN' = credentialAfter(JWT_TOKEN, Get(call.args, "bearerToken"))
    /\ UNCHANGED formatting

ConcurrentNext ==
  \/ ConcurrentCallTool
  \/ Respond
  \/ ConnectionFailure
  \/ Timeout
  \/ SetupFailure
  \/ Deliver

ConcurrentSpec == ConcurrentInit /\ [][ConcurrentNext]_vars

(***************************************************************************)
(* Vocabulary of the properties.                                           *)
(***************************************************************************)
IdTools ==
  {"get_report", "update_report", "get_vulnerabilities",
   "create_vulnerabilities", "get_vulnerability", "update_vulnerability",
   "delete_vulnerability"}

IdKey(name) ==
  IF name \in {"get_vulnerability", "update_vulnerability", "delete_vulnerability"}
  THEN "vulnerabilityId" ELSE "reportId"

\* a string of exactly 24 hexadecimal digits
IsHex24(x) ==
  /\ x.t = "string"
  /\ Len(x.v) = 24
  /\ \A i \in 1..24 :
       x.v[i] \in {"0", "1", "2", "3", "4", "5", "6", "7", "8", "9",
                   "a", "b", "c", "d", "e", "f", "A", "B", "C", "D", "E", "F"}

Done(c) == calls[c].pc = "done"
Sent(c) == calls[c].sent
IsError(c, code) ==
  /\ calls[c].outcome.kind = "error"
  /\ calls[c].outcome.error.cls = "McpError"
  /\ calls[c].outcome.error.code = code
IsEnvelope(c) == calls[c].outcome.kind = "envelope"

\* C1: every request issued by an identifier-taking tool carries, as the
\* last segment of its path, an identifier of exactly 24 hexadecimal digits.
C1_IdentifiersWellFormed ==
  \A c \in DOMAIN calls : \A i \in 1..Len(Sent(c)) :
    calls[c].name \in IdTools =>
      /\ Sent(c)[i].url.path /= <<>>
      /\ IsHex24(Sent(c)[i].url.path[Len(Sent(c)[i].url.path)])
      /\ Sent(c)[i].url.path[Len(Sent(c)[i].url.path)]
           = Get(calls[c].original, IdKey(calls[c].name))

C1_Witness ==
  \E c \in DOMAIN calls :
    /\ calls[c].name = "get_vulnerabilities"
    /\ Len(Sent(c)) = 1
    /\ Sent(c)[1].url.path = <<Str(PathReport), Str(UpperId)>>

\* the claim's notion of an invalid batch element
LacksText(v, k) == ~(Get(v, k).t = "string" /\ Get(v, k).v /= <<>>)

BadScore(v) ==
  /\ "cvssScore" \in DOMAIN v.v
  /\ ~(v.v.cvssScore.t = "number" /\ v.v.cvssScore.v >= 0 /\ v.v.cvssScore.v <= 100)

BadSeverity(v) ==
  /\ "severity" \in DOMAIN v.v
  /\ \A i \in 1..Len(validSeverities) : v.v.severity /= Str(validSeverities[i])

BadCvss(v) ==
  /\ "cvss" \in DOMAIN v.v
  /\ ~(v.v.cvss.t = "string" /\ Len(v.v.cvss.v) >= 9
       /\ SubSeq(v.v.cvss.v, 1, 9) = <<"C", "V", "S", "S", ":", "3", ".", "1", "/">>)

InvalidElement(v) ==
  /\ v.t = "object"
  /\ LacksText(v, "title") \/ LacksText(v, "description")
     \/ BadScore(v) \/ BadSeverity(v) \/ BadCvss(v)

\* a create_vulnerabilities call whose batch is a list of objects, one of
\* them invalid, and whose reportId is a string
BatchWithInvalidElement(c) ==
  /\ calls[c].name = "create_vulnerabilities"
  /\ calls[c].original.t = "object"
  /\ Get(calls[c].original, "reportId").t = "string"
  /\ Get(calls[c].original, "vulnerabilities").t = "array"
  /\ \A i \in 1..Len(Get(calls[c].original, "vulnerabilities").v) :
       Get(calls[c].original, "vulnerabilities").v[i].t = "object"
  /\ \E i \in 1..Len(Get(calls[c].original, "vulnerabilities").v) :
       InvalidElement(Get(calls[c].original, "vulnerabilities").v[i])

\* C2: a call that ended in a parameter error issued no request; a
\* create_vulnerabilities call with an invalid element anywhere in its batch
\* ends in a parameter error and issues no request.
C2_ParameterErrorBeforeRequest ==
  \A c \in DOMAIN calls :
    /\ (Done(c) /\ IsError(c, "InvalidParams")) => Sent(c) = <<>>
    /\ (calls[c].pc /= "idle" /\ BatchWithInvalidElement(c)) =>
         Done(c) /\ IsError(c, "InvalidParams") /\ Sent(c) = <<>>

\* a batch of three whose last element only lacks its description
C2_Witness ==
  \E c \in DOMAIN calls :
    /\ BatchWithInvalidElement(c)
    /\ Get(calls[c].original, "reportId") = Str(ValidId)
    /\ JWT_TOKEN = Str(TokenEnv)
    /\ Len(Get(calls[c].original, "vulnerabilities").v) = 3
    /\ ~InvalidElement(Get(calls[c].original, "vulnerabilities").v[1])
    /\ ~InvalidElement(Get(calls[c].original, "vulnerabilities").v[2])
    /\ LacksText(Get(calls[c].original, "vulnerabilities").v[3], "description")
    /\ Done(c) /\ IsError(c, "InvalidParams") /\ Sent(c) = <<>>

\* JavaScript truthiness of a credential value
Available(x) ==
  \/ x.t = "string" /\ x.v /= <<>>
  \/ x.t \in {"array", "object"}
  \/ x.t = "number" /\ x.v /= 0

AnsweredWithFailure(c) ==
  /\ Done(c)
  /\ calls[c].raised.cls = "AxiosError"
  /\ calls[c].raised.response.t = "response"

\* C4: a non-success answer of the upstream API is returned as an envelope
\* with success false, the upstream status and the upstream error; it is
\* not thrown.
C4_UpstreamFailureIsEnvelope ==
  \A c \in DOMAIN calls :
    AnsweredWithFailure(c) =>
      /\ IsEnvelope(c)
      /\ calls[c].outcome.success = FALSE
      /\ calls[c].outcome.status = calls[c].raised.response.status
      /\ calls[c].outcome.status \in {404, 500}
      /\ calls[c].outcome.error =
           IF calls[c].raised.response.data.v /= <<>>
           THEN calls[c].raised.response.data
           ELSE calls[c].raised.message

C4_Witness ==
  \E c \in DOMAIN calls :
    /\ calls[c].name = "get_report"
    /\ AnsweredWithFailure(c)
    /\ IsEnvelope(c)
    /\ calls[c].outcome.status = 404

\* the request of call c got no response / could not be constructed
NoResponseReceived(c) ==
  /\ Done(c)
  /\ calls[c].raised.cls = "AxiosError"
  /\ calls[c].raised.response.t = "undefined"
  /\ calls[c].raised.request

RequestNotConstructed(c) ==
  /\ Done(c)
  /\ calls[c].raised.cls = "AxiosError"
  /\ calls[c].raised.response.t = "undefined"
  /\ ~calls[c].raised.request

TimedOut(c) ==
  /\ Done(c)
  /\ calls[c].raised.cls = "AxiosError"
  /\ calls[c].raised.message.text = "timeout exceeded"

\* C5: without an upstream response the call throws an internal error that
\* names the address of the request it issued; a request that could not be
\* constructed throws an internal error naming the setup failure; a timeout
\* is a case of the former.
C5_NoResponseIsInternalError ==
  \A c \in DOMAIN calls :
    /\ NoResponseReceived(c) =>
         /\ IsError(c, "InternalError")
         /\ calls[c].outcome.error.message.text
              = "Network error: Unable to reach the API at"
         /\ calls[c].outcome.error.message.url = Sent(c)[Len(Sent(c))].url
    /\ RequestNotConstructed(c) =>
         /\ IsError(c, "InternalError")
         /\ calls[c].outcome.error.message.text = "Request setup error"
         /\ calls[c].outcome.error.message.cause = calls[c].raised.message.text
    /\ TimedOut(c) =>
         /\ NoResponseReceived(c)
         /\ calls[c].outcome.error.message.text
              = "Network error: Unable to reach the API at"

C5_Witness ==
  \E c \in DOMAIN calls :
    /\ calls[c].name = "get_vulnerabilities"
    /\ TimedOut(c)
    /\ IsError(c, "InternalError")
    /\ calls[c].outcome.error.message.url
         = [endpoint |-> "http://10.10.10.117:3000/api/vulnerability",
            path |-> <<Str(PathReport), Str(ValidId)>>]

\* the call raised a fault of the JavaScript engine
RawFault(c) == Done(c) /\ calls[c].raised.cls = "TypeError"

\* C6: whatever leaves the handler as an error is a classified error, and a
\* fault of the engine (absent argument object, identifier that is not a
\* string, batch element that is not an object) leaves it as an internal
\* error that carries the message of the fault.
C6_NoRawFaultEscapes ==
  \A c \in DOMAIN calls :
    /\ (Done(c) /\ ~IsEnvelope(c)) =>
         /\ calls[c].outcome.kind = "error"
         /\ calls[c].outcome.error.cls = "McpError"
         /\ calls[c].outcome.error.code
              \in {"InvalidParams", "InternalError", "MethodNotFound"}
    /\ RawFault(c) =>
         /\ IsError(c, "InternalError")
         /\ calls[c].outcome.error.message.text
              \in {"Tool execution failed", "Request setup error"}
         /\ calls[c].outcome.error.message.cause = calls[c].raised.message.text
         /\ calls[c].raised.message.text /= ""

\* a call without an argument object
C6_Witness ==
  \E c \in DOMAIN calls :
    /\ calls[c].name = "update_report"
    /\ calls[c].original.t = "undefined"
    /\ RawFault(c)
    /\ IsError(c, "InternalError")
    /\ calls[c].outcome.error.message.text = "Tool execution failed"

\* C7 as stated: a finished call ended in an envelope, a parameter error or
\* an internal error.
C7_ThreeOutcomesOnly ==
  \A c \in DOMAIN calls :
    Done(c) =>
      \/ IsEnvelope(c)
      \/ IsError(c, "InvalidParams")
      \/ IsError(c, "InternalError")

\* C7, amended: every call whose request is answered, fails or times out
\* terminates, and a finished call ended in exactly one of an envelope, a
\* parameter error, an internal error or, exactly when its tool name is not
\* in the catalogue, a method-not-found error.
C7_Terminates ==
  /\ \A c \in {1} : (calls[c].pc = "awaiting") ~> (calls[c].pc = "done")
  /\ [](\A c \in DOMAIN calls :
          Done(c) =>
            /\ \/ IsEnvelope(c)
               \/ IsError(c, "InvalidParams")
               \/ IsError(c, "InternalError")
               \/ IsError(c, "MethodNotFound")
            /\ IsError(c, "MethodNotFound") <=> calls[c].name \notin ToolNames
            /\ IsEnvelope(c) => Len(Sent(c)) = 1)

\* a call that was suspended on its request and ended in an envelope
C7_Witness ==
  \E c \in DOMAIN calls :
    /\ Done(c)
    /\ Len(Sent(c)) = 1
    /\ IsEnvelope(c)
    /\ calls[c].outcome.success

\* C8: a call issues at most one request; once suspended on it, its next
\* step ends the call without another request.
C8_NoRetry ==
  [][\A c \in DOMAIN calls :
       /\ Len(calls'[c].sent) <= 1
       /\ calls[c].pc = "awaiting" =>
            calls'[c].pc = "done" /\ calls'[c].sent = calls[c].sent]_vars

\* a call that failed on the network keeps its single request
C8_Witness ==
  \E c \in DOMAIN calls :
    /\ calls[c].name = "update_vulnerability"
    /\ NoResponseReceived(c)
    /\ Len(Sent(c)) = 1

UpdatableFields(name) ==
  IF name = "update_report"
  THEN {"title", "platform", "goal", "scope", "summaryDescription",
        "summaryKeyFindings", "recommendations", "status"}
  ELSE {"title", "description", "details", "impact", "remediation", "cvss",
        "cvssScore", "severity", "taskId"}

\* an update call with a valid identifier and no updatable field
UpdateOfNothing(c) ==
  /\ calls[c].name \in {"update_report", "update_vulnerability"}
  /\ calls[c].original.t = "object"
  /\ IsHex24(Get(calls[c].original, IdKey(calls[c].name)))
  /\ UpdatableFields(calls[c].name) \cap DOMAIN calls[c].original.v = {}

\* C9: an update with a valid identifier and no updatable field ends in a
\* parameter error, and the body of every PUT has at least one field.
C9_NoEmptyPatch ==
  \A c \in DOMAIN calls :
    /\ UpdateOfNothing(c) => Done(c) /\ IsError(c, "InvalidParams") /\ Sent(c) = <<>>
    /\ \A i \in 1..Len(Sent(c)) :
         Sent(c)[i].method = "PUT" =>
           /\ calls[c].name \in {"update_report", "update_vulnerability"}
           /\ Sent(c)[i].body.t = "object"
           /\ DOMAIN Sent(c)[i].body.v /= {}

C9_Witness ==
  \E c \in DOMAIN calls :
    /\ UpdateOfNothing(c)
    /\ calls[c].name = "update_vulnerability"
    /\ "bearerToken" \in DOMAIN calls[c].original.v
    /\ IsError(c, "InvalidParams")

SummaryFields(args) ==
  {k \in {"summaryDescription", "summaryKeyFindings"} : k \in DOMAIN args.v}

\* the top-level fields the patch of an update call is to have
ExpectedPatchFields(name, args) ==
  ((UpdatableFields(name) \ {"summaryDescription", "summaryKeyFindings"})
     \cap DOMAIN args.v)
  \cup (IF name = "update_report" /\ SummaryFields(args) /= {}
        THEN {"summary"} ELSE {})

\* C10: the patch of an update has exactly the updatable fields present in
\* the call, an empty string included; the two summary fields appear as a
\* nested summary object holding only those present; update_report with
\* only status Closed sends exactly {status: Closed}.
C10_PatchHasFieldsPresent ==
  \A c \in DOMAIN calls : \A i \in 1..Len(Sent(c)) :
    calls[c].name \in {"update_report", "update_vulnerability"} =>
      LET body == Sent(c)[i].body
          args == calls[c].original
      IN
      /\ DOMAIN body.v = ExpectedPatchFields(calls[c].name, args)
      /\ \A k \in DOMAIN body.v \cap {"title", "platform", "status", "cvss",
                                      "cvssScore", "severity", "taskId"} :
           body.v[k] = args.v[k]
      /\ "summary" \in DOMAIN body.v =>
           /\ ("description" \in DOMAIN body.v.summary.v)
                <=> ("summaryDescription" \in DOMAIN args.v)
           /\ ("keyFindings" \in DOMAIN body.v.summary.v)
                <=> ("summaryKeyFindings" \in DOMAIN args.v)
           /\ DOMAIN body.v.summary.v \subseteq {"description", "keyFindings"}
      /\ (/\ calls[c].name = "update_report"
          /\ DOMAIN args.v \ {"bearerToken"} = {"reportId", "status"}
          /\ args.v.status = Str(<<"C", "l", "o", "s", "e", "d">>)) =>
           body = Obj([status |-> Str(<<"C", "l", "o", "s", "e", "d">>)])

\* update_report with only status Closed
C10_Witness ==
  \E c \in DOMAIN calls :
    /\ calls[c].name = "update_report"
    /\ calls[c].original.t = "object"
    /\ DOMAIN calls[c].original.v = {"reportId", "status"}
    /\ Len(Sent(c)) = 1
    /\ Sent(c)[1].method = "PUT"
    /\ Sent(c)[1].body = Obj([status |-> Str(<<"C", "l", "o", "s", "e", "d">>)])

\* an empty string supplied for a field is sent
C10_EmptyStringSent ==
  \E c \in DOMAIN calls :
    /\ calls[c].name = "update_vulnerability"
    /\ Len(Sent(c)) = 1
    /\ Get(Sent(c)[1].body, "title") = Str(<<>>)

\* the identifier of call c is absent, empty, or anything but a string of 24
\* hexadecimal digits
InvalidIdentifier(c) ==
  /\ calls[c].name \in IdTools
  /\ calls[c].original.t = "object"
  /\ ~IsHex24(Get(calls[c].original, IdKey(calls[c].name)))

\* call c ended in one of the two parameter errors about its identifier
IdentifierRejected(c) ==
  /\ IsError(c, "InvalidParams")
  /\ calls[c].outcome.error.message.text \in
       {"Report ID is required", "Vulnerability ID is required",
        "Invalid reportId format. Must be a valid MongoDB ObjectId (24 characters)",
        "Invalid vulnerabilityId format. Must be a valid MongoDB ObjectId (24 characters)"}

\* C11: a call of an identifier-taking tool whose identifier is absent, empty
\* or does not match the pattern (a non-string included) ends in a parameter
\* error; an identifier of 24 hexadecimal digits is never rejected.
C11_InvalidIdentifierIsParameterError ==
  \A c \in DOMAIN calls :
    /\ (calls[c].pc /= "idle" /\ InvalidIdentifier(c)) =>
         Done(c) /\ IsError(c, "InvalidParams") /\ Sent(c) = <<>>
    /\ (calls[c].pc /= "idle" /\ calls[c].name \in IdTools
        /\ calls[c].original.t = "object"
        /\ IsHex24(Get(calls[c].original, IdKey(calls[c].name)))) =>
         ~IdentifierRejected(c)

\* the same, for identifiers that are strings or falsy: what the code does
C11_StringIdentifiers ==
  \A c \in DOMAIN calls :
    (calls[c].pc /= "idle" /\ InvalidIdentifier(c)
     /\ (Get(calls[c].original, IdKey(calls[c].name)).t = "string"
         \/ ~Truthy(Get(calls[c].original, IdKey(calls[c].name))))) =>
      Done(c) /\ IsError(c, "InvalidParams") /\ Sent(c) = <<>>

\* a number as identifier, with a credential: the call ends in an internal
\* error
C11_NonStringIdentifier ==
  \E c \in DOMAIN calls :
    /\ calls[c].name = "get_report"
    /\ Get(calls[c].original, "reportId") = Num(123)
    /\ Done(c) /\ IsError(c, "InternalError")

WriteTools ==
  {"create_report", "update_report", "create_vulnerabilities",
   "update_vulnerability"}

\* C12: every request of a write tool is configured with a timeout of 15
\* seconds, every request of a read or delete tool with one of 10 seconds.
C12_TimeoutByKind ==
  \A c \in DOMAIN calls : \A i \in 1..Len(Sent(c)) :
    /\ calls[c].name \in WriteTools => Sent(c)[i].timeout = 15000
    /\ calls[c].name \in ToolNames \ WriteTools => Sent(c)[i].timeout = 10000

\* the same with create_report among the tools of 10 seconds: what the code
\* does
C12_TimeoutAsCoded ==
  \A c \in DOMAIN calls : \A i \in 1..Len(Sent(c)) :
    /\ calls[c].name \in WriteTools \ {"create_report"} =>
         Sent(c)[i].timeout = 15000
    /\ calls[c].name \in (ToolNames \ WriteTools) \cup {"create_report"} =>
         Sent(c)[i].timeout = 10000

\* call c is create_vulnerabilities with a valid reportId, a credential, and
\* a single valid vulnerability object in place of the list
SingleObjectBatch(c) ==
  /\ calls[c].name = "create_vulnerabilities"
  /\ calls[c].original.t = "object"
  /\ IsHex24(Get(calls[c].original, "reportId"))
  /\ Available(Get(calls[c].original, "bearerToken")) \/ Available(JWT_TOKEN)
  /\ Get(calls[c].original, "vulnerabilities").t = "object"
  /\ ~InvalidElement(Get(calls[c].original, "vulnerabilities"))

\* C13: a single vulnerability object supplied in place of the list is
\* coerced to a list of one, and exactly one POST with that list is issued.
C13_SingleObjectCoerced ==
  \A c \in DOMAIN calls :
    (calls[c].pc /= "idle" /\ SingleObjectBatch(c)) =>
      /\ Len(Sent(c)) = 1
      /\ Sent(c)[1].method = "POST"
      /\ Sent(c)[1].body.t = "array"
      /\ Len(Sent(c)[1].body.v) = 1

\* what the code does with it: the router answers with a parameter error
C13_SingleObjectRejected ==
  \A c \in DOMAIN calls :
    (calls[c].pc /= "idle" /\ SingleObjectBatch(c)) =>
      /\ Done(c) /\ IsError(c, "InvalidParams") /\ Sent(c) = <<>>
      /\ calls[c].outcome.error.message.text
           = "At least one vulnerability is required"

C13_SingleObjectCalled ==
  \E c \in DOMAIN calls : calls[c].pc /= "idle" /\ SingleObjectBatch(c)

\* element i is the first invalid element of the batch of call c, and it
\* lacks its title or its description; the call has a valid reportId and a
\* credential
FirstInvalidLacksText(c, i) ==
  /\ BatchWithInvalidElement(c)
  /\ IsHex24(Get(calls[c].original, "reportId"))
  /\ Available(Get(calls[c].original, "bearerToken")) \/ Available(JWT_TOKEN)
  /\ i \in 1..Len(Get(calls[c].original, "vulnerabilities").v)
  /\ \A j \in 1..(i - 1) :
       ~InvalidElement(Get(calls[c].original, "vulnerabilities").v[j])
  /\ \/ LacksText(Get(calls[c].original, "vulnerabilities").v[i], "title")
     \/ LacksText(Get(calls[c].original, "vulnerabilities").v[i], "description")

\* the text of the parameter error about the field that element v lacks
MissingFieldText(v) ==
  IF LacksText(v, "title")
  THEN "Each vulnerability must have a title (string)"
  ELSE "Each vulnerability must have a description (HTML string)"

\* C14: the parameter error for an element without title or description
\* names the missing field and carries something that tells the offending
\* element from the others (the message has a part that is not fixed text).
C14_ErrorNamesFieldAndElement ==
  \A c \in DOMAIN calls :
    \A i \in 1..MaxBatch + 1 :
      (calls[c].pc /= "idle" /\ FirstInvalidLacksText(c, i)) =>
        /\ Done(c) /\ IsError(c, "InvalidParams")
        /\ calls[c].outcome.error.message.text
             = MissingFieldText(Get(calls[c].original, "vulnerabilities").v[i])
        /\ calls[c].outcome.error.message.id /= Undef

\* what the code does: the message is the fixed text about the field, the
\* same for every position of the offending element
C14_ErrorNamesFieldOnly ==
  \A c \in DOMAIN calls :
    \A i \in 1..MaxBatch + 1 :
      (calls[c].pc /= "idle" /\ FirstInvalidLacksText(c, i)) =>
        /\ Done(c) /\ IsError(c, "InvalidParams")
        /\ calls[c].outcome.error.message
             = Msg(MissingFieldText(Get(calls[c].original, "vulnerabilities").v[i]))

\* the third element of a batch is the offending one
C14_LastElementOffends ==
  \E c \in DOMAIN calls : calls[c].pc /= "idle" /\ FirstInvalidLacksText(c, 3)

\* the identifier of call c is a string or falsy: the pattern test applies
\* to it
StringOrNoId(c) ==
  \/ Get(calls[c].original, IdKey(calls[c].name)).t = "string"
  \/ ~Truthy(Get(calls[c].original, IdKey(calls[c].name)))

\* call c is create_vulnerabilities with a list of objects
ObjectBatch(c) ==
  /\ calls[c].name = "create_vulnerabilities"
  /\ calls[c].original.t = "object"
  /\ Get(calls[c].original, "vulnerabilities").t = "array"
  /\ \A i \in 1..Len(Get(calls[c].original, "vulnerabilities").v) :
       Get(calls[c].original, "vulnerabilities").v[i].t = "object"

Batch(c) == Get(calls[c].original, "vulnerabilities").v

\* call c is update_vulnerability with an argument object
UpdateVulnerabilityCall(c) ==
  calls[c].name = "update_vulnerability" /\ calls[c].original.t = "object"

\* call c has a credential and an identifier of 24 hexadecimal digits
Admissible(c) ==
  /\ IsHex24(Get(calls[c].original, IdKey(calls[c].name)))
  /\ Available(Get(calls[c].original, "bearerToken")) \/ Available(JWT_TOKEN)

RejectedUnsent(c) == Done(c) /\ IsError(c, "InvalidParams") /\ Sent(c) = <<>>

\* a number between 0.0 and 10.0, both included (in tenths)
InRange(x) == x.t = "number" /\ x.v >= 0 /\ x.v <= 100

\* C15: a present cvssScore that is not a number in [0.0, 10.0] ends the call
\* in a parameter error without a request, on update_vulnerability and on any
\* element of a batch; a score in the range, bounds included, is sent on when
\* the rest of the call is valid.
C15_ScoreRange ==
  \A c \in DOMAIN calls :
    calls[c].pc /= "idle" =>
      /\ (UpdateVulnerabilityCall(c) /\ StringOrNoId(c)
          /\ BadScore(calls[c].original)) => RejectedUnsent(c)
      /\ (ObjectBatch(c) /\ StringOrNoId(c)
          /\ \E i \in 1..Len(Batch(c)) : BadScore(Batch(c)[i])) =>
           RejectedUnsent(c)
      /\ (UpdateVulnerabilityCall(c) /\ Admissible(c)
          /\ InRange(Get(calls[c].original, "cvssScore"))
          /\ ~BadSeverity(calls[c].original) /\ ~BadCvss(calls[c].original)) =>
           /\ Len(Sent(c)) = 1
           /\ Get(Sent(c)[1].body, "cvssScore") = Get(calls[c].original, "cvssScore")
      /\ (ObjectBatch(c) /\ Admissible(c) /\ Batch(c) /= <<>>
          /\ \A i \in 1..Len(Batch(c)) : ~InvalidElement(Batch(c)[i])) =>
           /\ Len(Sent(c)) = 1
           /\ Len(Sent(c)[1].body.v) = Len(Batch(c))
           /\ \A i \in 1..Len(Batch(c)) :
                Get(Sent(c)[1].body.v[i], "cvssScore") = Get(Batch(c)[i], "cvssScore")

\* the upper bound 10.0 is sent on by update_vulnerability
C15_Witness ==
  \E c \in DOMAIN calls :
    /\ UpdateVulnerabilityCall(c)
    /\ Get(calls[c].original, "cvssScore") = Num(100)
    /\ Len(Sent(c)) = 1
    /\ Get(Sent(c)[1].body, "cvssScore") = Num(100)
    /\ Done(c) /\ IsEnvelope(c)

\* call c is update_report with an argument object
UpdateReportCall(c) ==
  calls[c].name = "update_report" /\ calls[c].original.t = "object"

\* a present status outside the enumeration
BadStatus(v) ==
  /\ "status" \in DOMAIN v.v
  /\ \A i \in 1..Len(validStatuses) : v.v.status /= Str(validStatuses[i])

\* C16: a present status (update_report) or severity (update_vulnerability,
\* any element of a batch) outside its enumeration ends the call in a
\* parameter error without a request; each of the five values of either
\* enumeration is sent on when the rest of the call is valid.
C16_EnumeratedFields ==
  \A c \in DOMAIN calls :
    calls[c].pc /= "idle" =>
      /\ (UpdateReportCall(c) /\ StringOrNoId(c) /\ BadStatus(calls[c].original)) =>
           RejectedUnsent(c)
      /\ (UpdateVulnerabilityCall(c) /\ StringOrNoId(c)
          /\ BadSeverity(calls[c].original)) => RejectedUnsent(c)
      /\ (ObjectBatch(c) /\ StringOrNoId(c)
          /\ \E i \in 1..Len(Batch(c)) : BadSeverity(Batch(c)[i])) =>
           RejectedUnsent(c)
      /\ (UpdateReportCall(c) /\ Admissible(c)
          /\ Includes(validStatuses, Get(calls[c].original, "status"))) =>
           /\ Len(Sent(c)) = 1
           /\ Get(Sent(c)[1].body, "status") = Get(calls[c].original, "status")
      /\ (UpdateVulnerabilityCall(c) /\ Admissible(c)
          /\ Includes(validSeverities, Get(calls[c].original, "severity"))
          /\ ~BadScore(calls[c].original) /\ ~BadCvss(calls[c].original)) =>
           /\ Len(Sent(c)) = 1
           /\ Get(Sent(c)[1].body, "severity") = Get(calls[c].original, "severity")
      /\ (ObjectBatch(c) /\ Admissible(c) /\ Batch(c) /= <<>>
          /\ \A i \in 1..Len(Batch(c)) : ~InvalidElement(Batch(c)[i])) =>
           /\ Len(Sent(c)) = 1
           /\ Len(Sent(c)[1].body.v) = Len(Batch(c))
           /\ \A i \in 1..Len(Batch(c)) :
                Get(Sent(c)[1].body.v[i], "severity") = Get(Batch(c)[i], "severity")

\* an empty severity on the last element of a batch of three is rejected
C16_Witness ==
  \E c \in DOMAIN calls :
    /\ ObjectBatch(c) /\ Admissible(c)
    /\ Len(Batch(c)) = 3
    /\ ~InvalidElement(Batch(c)[1]) /\ ~InvalidElement(Batch(c)[2])
    /\ Get(Batch(c)[3], "severity") = Str(<<>>)
    /\ RejectedUnsent(c)

\* C17: a present cvss that is not a string starting with "CVSS:3.1/" ends
\* the call in a parameter error without a request, on update_vulnerability
\* and on any element of a batch; a string with that prefix is sent on when
\* the rest of the call is valid.
C17_CvssPrefix ==
  \A c \in DOMAIN calls :
    calls[c].pc /= "idle" =>
      /\ (UpdateVulnerabilityCall(c) /\ StringOrNoId(c)
          /\ BadCvss(calls[c].original)) => RejectedUnsent(c)
      /\ (ObjectBatch(c) /\ StringOrNoId(c)
          /\ \E i \in 1..Len(Batch(c)) : BadCvss(Batch(c)[i])) =>
           RejectedUnsent(c)
      /\ (UpdateVulnerabilityCall(c) /\ Admissible(c)
          /\ "cvss" \in DOMAIN calls[c].original.v
          /\ ~BadCvss(calls[c].original)
          /\ ~BadScore(calls[c].original) /\ ~BadSeverity(calls[c].original)) =>
           /\ Len(Sent(c)) = 1
           /\ Get(Sent(c)[1].body, "cvss") = Get(calls[c].original, "cvss")
      /\ (ObjectBatch(c) /\ Admissible(c) /\ Batch(c) /= <<>>
          /\ \A i \in 1..Len(Batch(c)) : ~InvalidElement(Batch(c)[i])) =>
           /\ Len(Sent(c)) = 1
           /\ Len(Sent(c)[1].body.v) = Len(Batch(c))
           /\ \A i \in 1..Len(Batch(c)) :
                Get(Sent(c)[1].body.v[i], "cvss") = Get(Batch(c)[i], "cvss")

\* "CVSS:2.0/AV:N" on update_vulnerability is rejected
C17_Witness ==
  \E c \in DOMAIN calls :
    /\ UpdateVulnerabilityCall(c) /\ Admissible(c)
    /\ Get(calls[c].original, "cvss") = Str(Cvss2Vector)
    /\ RejectedUnsent(c)
    /\ calls[c].outcome.error.message.text
         = "CVSS vector must be a valid CVSS 3.1 string starting with \"CVSS:3.1/\""

\* the full 3.1 vector as the second element of a batch goes out unchanged
C17_VectorSent ==
  \E c \in DOMAIN calls :
    /\ ObjectBatch(c) /\ Len(Sent(c)) = 1 /\ Len(Batch(c)) = 3
    /\ Get(Sent(c)[1].body.v[2], "cvss") = Str(Cvss31Vector)

\* the nine operation names of the claim
NineOperations ==
  {"get_all_reports", "get_report", "create_report", "update_report",
   "get_vulnerabilities", "get_vulnerability", "create_vulnerabilities",
   "update_vulnerability", "delete_vulnerability"}

Catalogue == {listTools[i] : i \in 1..Len(listTools)}

\* the HTTP method and the endpoint of the pipeline of each operation
PipelineMethod(name) ==
  CASE name \in {"get_all_reports", "get_report", "get_vulnerabilities",
                 "get_vulnerability"} -> "GET"
    [] name \in {"create_report", "create_vulnerabilities"} -> "POST"
    [] name \in {"update_report", "update_vulnerability"} -> "PUT"
    [] name = "delete_vulnerability" -> "DELETE"
    [] OTHER -> "none"

PipelineEndpoint(name) ==
  IF name \in {"get_all_reports", "get_report", "create_report", "update_report"}
  THEN REPORTS_ENDPOINT ELSE VULNERABILITY_ENDPOINT

\* C18: the catalogue lists exactly the nine operations, each once; a call
\* of a listed name is never answered "method not found" and its request, if
\* any, is the one of that operation's pipeline; a call of any other name
\* ends in "method not found" without a request.
C18_CatalogueAndRouterAgree ==
  /\ Catalogue = NineOperations
  /\ Len(listTools) = 9
  /\ \A c \in DOMAIN calls :
       calls[c].pc /= "idle" =>
         /\ calls[c].name \in Catalogue =>
              /\ ~IsError(c, "MethodNotFound")
              /\ \A i \in 1..Len(Sent(c)) :
                   /\ Sent(c)[i].method = PipelineMethod(calls[c].name)
                   /\ Sent(c)[i].url.endpoint = PipelineEndpoint(calls[c].name)
         /\ calls[c].name \notin Catalogue =>
              /\ Done(c) /\ IsError(c, "MethodNotFound") /\ Sent(c) = <<>>
              /\ calls[c].outcome.error.message.text
                   = "Unknown tool: " \o calls[c].name

\* a name that differs from a listed one only in case is not found
C18_Witness ==
  \E c \in DOMAIN calls :
    /\ calls[c].name = "GET_REPORT"
    /\ Get(calls[c].original, "reportId") = Str(ValidId)
    /\ JWT_TOKEN = Str(TokenEnv)
    /\ Done(c) /\ IsError(c, "MethodNotFound") /\ Sent(c) = <<>>

\* the text has neither '<' nor '>'
NoAngle(s) == \A i \in 1..Len(s) : s[i] \notin {"<", ">"}

\* "<p>" + s + "</p>"
Paragraph(s) == <<"<", "p", ">">> \o s \o <<"<", "/", "p", ">">>

\* formatAsHTML was applied to a text without '<' and '>' as this field type
FormattedPlain(fieldType) ==
  /\ formatting.pc /= "idle"
  /\ formatting.fieldType = fieldType
  /\ formatting.content.t = "string"
  /\ NoAngle(formatting.content.v)

\* C19 as stated: every text without '<' and '>', the empty one included,
\* is wrapped as "<p>" + s + "</p>", and formatting the result again
\* returns it unchanged.
C19_EveryTextWrapped ==
  FormattedPlain("paragraph") =>
    /\ formatting.result = Str(Paragraph(formatting.content.v))
    /\ formatting.pc = "reformatted" => formatting.again = formatting.result

\* C19, amended: every non-empty text without '<' and '>' (whitespace-only
\* included) is wrapped as "<p>" + s + "</p>", the empty text is returned as
\* it is, and formatting the result again returns it unchanged.
C19_NonEmptyTextWrapped ==
  FormattedPlain("paragraph") =>
    /\ formatting.content.v /= <<>> =>
         formatting.result = Str(Paragraph(formatting.content.v))
    /\ formatting.content.v = <<>> => formatting.result = Str(<<>>)
    /\ formatting.pc = "reformatted" => formatting.again = formatting.result

\* a whitespace-only text was wrapped, and the result formatted again
C19_Witness ==
  /\ formatting.pc = "reformatted"
  /\ formatting.fieldType = "paragraph"
  /\ formatting.content = Str(<<" ", "\t">>)
  /\ formatting.result = Str(<<"<", "p", ">", " ", "\t", "<", "/", "p", ">">>)
  /\ formatting.again = formatting.result

\* The segments of a text as the claim describes them: the pieces between
\* separators, each stripped of blanks at both ends, the empty ones dropped.
Separators == {"\n", ";", ",", "|"}
Blanks == {" ", "\t", "\n", "\r", "\f"}

\* the positions that bound a piece: before the text, each separator, after
\* the text
Cuts(s) == {0, Len(s) + 1} \cup {i \in 1..Len(s) : s[i] \in Separators}

NextCut(s, b) ==
  CHOOSE e \in Cuts(s) : e > b /\ \A x \in Cuts(s) : x > b => e <= x

Piece(s, b) == SubSeq(s, b + 1, NextCut(s, b) - 1)

Stripped(p) ==
  LET solid == {i \in 1..Len(p) : p[i] \notin Blanks} IN
  IF solid = {} THEN <<>>
  ELSE SubSeq(p, CHOOSE i \in solid : \A j \in solid : i <= j,
                 CHOOSE i \in solid : \A j \in solid : i >= j)

\* the cuts that open a piece which is not empty once stripped
SegmentStarts(s) ==
  {b \in Cuts(s) \ {Len(s) + 1} : Stripped(Piece(s, b)) /= <<>>}

Segments(s) ==
  [k \in 1..Cardinality(SegmentStarts(s)) |->
     Stripped(Piece(s, CHOOSE b \in SegmentStarts(s) :
                         Cardinality({x \in SegmentStarts(s) : x < b}) = k - 1))]

RECURSIVE ListElements(_)
ListElements(segments) ==
  IF segments = <<>> THEN <<>>
  ELSE <<"<", "l", "i", ">">> \o Head(segments) \o <<"<", "/", "l", "i", ">">>
       \o ListElements(Tail(segments))

\* "<ul>" + one "<li>segment</li>" per segment + "</ul>"
BulletList(segments) ==
  <<"<", "u", "l", ">">> \o ListElements(segments) \o <<"<", "/", "u", "l", ">">>

\* C20 as stated: a text without '<' and '>' with two or more segments
\* becomes the bullet list of its segments in order; with none or one it
\* becomes "<p>" + the whole text + "</p>".
C20_ListOrParagraph ==
  FormattedPlain("list") =>
    /\ Len(Segments(formatting.content.v)) >= 2 =>
         formatting.result = Str(BulletList(Segments(formatting.content.v)))
    /\ Len(Segments(formatting.content.v)) <= 1 =>
         formatting.result = Str(Paragraph(formatting.content.v))

\* C20, amended: as stated for every non-empty text; the empty text (no
\* segment) is returned as it is.
C20_ListOrParagraphNonEmpty ==
  FormattedPlain("list") =>
    /\ Len(Segments(formatting.content.v)) >= 2 =>
         formatting.result = Str(BulletList(Segments(formatting.content.v)))
    /\ (Len(Segments(formatting.content.v)) <= 1
        /\ formatting.content.v /= <<>>) =>
         formatting.result = Str(Paragraph(formatting.content.v))
    /\ formatting.content.v = <<>> => formatting.result = Str(<<>>)

\* "a; a" becomes a list of two items
C20_Witness ==
  /\ formatting.pc = "formatted"
  /\ formatting.fieldType = "list"
  /\ formatting.content = Str(<<"a", ";", " ", "a">>)
  /\ formatting.result =
       Str(<<"<", "u", "l", ">", "<", "l", "i", ">", "a", "<", "/", "l", "i", ">",
             "<", "l", "i", ">", "a", "<", "/", "l", "i", ">",
             "<", "/", "u", "l", ">">>)

\* a text of separators and blanks only has no segment and is wrapped whole
C20_NoSegment ==
  /\ formatting.pc = "formatted"
  /\ formatting.fieldType = "list"
  /\ formatting.content = Str(<<";", " ", ",">>)
  /\ formatting.result = Str(<<"<", "p", ">", ";", " ", ",", "<", "/", "p", ">">>)

\* the text has both a '<' and a '>'
BothAngles(s) ==
  /\ \E i \in 1..Len(s) : s[i] = "<"
  /\ \E i \in 1..Len(s) : s[i] = ">"

\* C21: a string with both '<' and '>' is returned unchanged whatever the
\* kind, content that is absent or not a string is returned unchanged, and
\* formatting a result once more with the same kind returns that result.
C21_PassThroughAndIdempotence ==
  formatting.pc /= "idle" =>
    /\ (formatting.content.t = "string" /\ BothAngles(formatting.content.v)) =>
         formatting.result = formatting.content
    /\ formatting.content.t /= "string" =>
         formatting.result = formatting.content
    /\ formatting.pc = "reformatted" => formatting.again = formatting.result

\* a text with tags and a separator, formatted as a list and once more
C21_Witness ==
  /\ formatting.pc = "reformatted"
  /\ formatting.fieldType = "list"
  /\ formatting.content = Str(<<"<", ";", "a", ">">>)
  /\ formatting.result = formatting.content
  /\ formatting.again = formatting.content

\* a text with '<' only is wrapped, and the wrapped text is then left alone
C21_OneAngleWrappedOnce ==
  /\ formatting.pc = "reformatted"
  /\ formatting.content = Str(<<"a", "<">>)
  /\ formatting.result = Str(<<"<", "p", ">", "a", "<", "<", "/", "p", ">">>)
  /\ formatting.again = formatting.result

\* call c is create_report with an argument object
CreateReportCall(c) ==
  calls[c].name = "create_report" /\ calls[c].original.t = "object"

\* call c is create_report with a title and a credential
CreateReportSends(c) ==
  /\ CreateReportCall(c)
  /\ Truthy(Get(calls[c].original, "title"))
  /\ Available(Get(calls[c].original, "bearerToken")) \/ Available(JWT_TOKEN)

\* what C22 says of title, testers and the fields of the payload, and of a
\* call without title
PayloadShape(c) ==
  /\ (CreateReportCall(c) /\ ~Truthy(Get(calls[c].original, "title"))) =>
       /\ RejectedUnsent(c)
       /\ calls[c].outcome.error.message.text = "Report title is required"
  /\ CreateReportSends(c) =>
       /\ Len(Sent(c)) = 1
       /\ Sent(c)[1].method = "POST"
       /\ Sent(c)[1].body.t = "object"
       /\ DOMAIN Sent(c)[1].body.v = {"title", "platform", "templateId", "testers"}
       /\ Sent(c)[1].body.v.title = Get(calls[c].original, "title")
       /\ Sent(c)[1].body.v.testers =
            IF "testers" \in DOMAIN calls[c].original.v
            THEN calls[c].original.v.testers ELSE Arr(<<>>)

Settlements ==
  {IF status >= 200 /\ status < 300
   THEN Return(Response(status, data))
   ELSE Throw(AxiosError("Request failed with status code",
                         Response(status, data), TRUE)) :
     status \in ResponseStatuses, data \in ResponseBodies}
  \cup {Throw(AxiosError("connect ECONNREFUSED", Undef, TRUE)),
        Throw(AxiosError("timeout exceeded", Undef, TRUE)),
        Throw(AxiosError("request setup failed", Undef, FALSE))}

\* call c run alone with the credential of the process: up to its request
Alone(c) == started(calls[c].name, calls[c].original, JWT_TOKEN)

\* the records a call can end with when run alone, given where it stands
\* after its synchronous part
AloneDone(solo) ==
  IF solo.pc = "done" THEN {solo}
  ELSE {settledCall(solo, settled) : settled \in Settlements}

\* call c is where, and has what, it would have had alone
AsIfAlone(c) ==
  \E solo \in {Alone(c)} :
    /\ calls[c].sent = solo.sent
    /\ calls[c].pc = "awaiting" => calls[c] = solo
    /\ calls[c].pc = "done" => calls[c] \in AloneDone(solo)

\* C23: with several calls in flight, interleaved in any order, the request
\* and the outcome of each call are those of the call run alone; a step of
\* one call leaves the other calls as they are; the process-wide credential
\* never changes.
C23_CallsIndependent ==
  /\ [](\A c \in DOMAIN calls : calls[c].pc /= "idle" => AsIfAlone(c))
  /\ [][\A c \in DOMAIN calls :
          calls'[c] /= calls[c] =>
            \A d \in DOMAIN calls \ {c} : calls'[d] = calls[d]]_vars
  /\ [][JWT_TOKEN' = JWT_TOKEN]_vars

\* one call is suspended at its request while another, with a token of its
\* own, is suspended at a different request
C23_Witness ==
  /\ calls[1].pc = "awaiting" /\ calls[2].pc = "awaiting"
  /\ calls[1].name = "get_report" /\ calls[2].name = "create_vulnerabilities"
  /\ calls[1].sent[1].authorization.token = Str(TokenEnv)
  /\ calls[2].sent[1].authorization.token = Str(TokenA)

\* C24: when create_vulnerabilities ends in a parameter error, the caller's
\* vulnerability objects still have the field values they came with.
C24_ParameterErrorLeavesArguments ==
  \A c \in DOMAIN calls :
    (calls[c].name = "create_vulnerabilities" /\ Done(c)
     /\ IsError(c, "InvalidParams")) =>
      calls[c].args = calls[c].original

\* the parameter errors thrown before the loop do leave the arguments alone
C24_EarlyErrorsLeaveArguments ==
  \A c \in DOMAIN calls :
    (calls[c].name = "create_vulnerabilities" /\ Done(c)
     /\ IsError(c, "InvalidParams")
     /\ calls[c].outcome.error.message.text \in
          {"Report ID is required", "At least one vulnerability is required",
           "Invalid reportId format. Must be a valid MongoDB ObjectId (24 characters)",
           "No bearer token provided. Either pass bearerToken parameter or set REPORTS_JWT_TOKEN environment variable."}) =>
      calls[c].args = calls[c].original

\* a batch whose second element lacks its description: the call ends in a
\* parameter error and the description of the first element is rewritten
C24_FirstElementRewritten ==
  \E c \in DOMAIN calls :
    /\ calls[c].name = "create_vulnerabilities"
    /\ Done(c) /\ IsError(c, "InvalidParams") /\ Sent(c) = <<>>
    /\ Get(calls[c].original, "vulnerabilities")
         = Arr(<<Obj(VulnBase), Obj([title |-> Str(<<"T">>), impact |-> Str(ListText)])>>)
    /\ Get(Get(calls[c].args, "vulnerabilities").v[1], "description")
         = Str(<<"<", "p", ">", "a", " ", "b", "<", "/", "p", ">">>)

(***************************************************************************)
(* Field normalization before dispatch                                     *)
(***************************************************************************)
FormattedFields == {"description", "details", "impact", "remediation"}

\* the kind the claim gives each field
KindOf(k) == IF k \in {"description", "details"} THEN "paragraph" ELSE "list"

\* in the sent object, each of the four fields is the caller's value
\* formatted once with the field's kind (an absent field stays absent)
Normalised(sent, original) ==
  \A k \in FormattedFields :
    Get(sent, k) = formatAsHTML(Get(original, k), KindOf(k))

\* C25: in every request create_vulnerabilities issues, each element's
\* description and details are the caller's values formatted as a paragraph
\* and its impact and remediation the caller's values formatted as a list,
\* one application each; the patch update_vulnerability sends uses the same
\* kinds for the same fields.
C25_FieldsNormalised ==
  \A c \in DOMAIN calls :
    \A i \in 1..Len(Sent(c)) :
      /\ calls[c].name = "create_vulnerabilities" =>
           /\ Sent(c)[i].body.t = "array"
           /\ Len(Sent(c)[i].body.v) = Len(Batch(c))
           /\ \A e \in 1..Len(Batch(c)) :
                Normalised(Sent(c)[i].body.v[e], Batch(c)[e])
      /\ calls[c].name = "update_vulnerability" =>
           Normalised(Sent(c)[i].body, calls[c].original)

\* a batch was sent whose second element had a list-like impact, now a
\* bullet list, and a plain description, now a paragraph
C25_Witness ==
  \E c \in DOMAIN calls :
    /\ calls[c].name = "create_vulnerabilities"
    /\ Len(Sent(c)) = 1
    /\ Len(Batch(c)) >= 2
    /\ Get(Batch(c)[2], "impact") = Str(ListText)
    /\ Get(Sent(c)[1].body.v[2], "impact")
         = Str(BulletList(<<<<"a">>, <<"b">>>>))
    /\ Get(Sent(c)[1].body.v[2], "description") = Str(Paragraph(PlainText))
    /\ Sent(c)[1].body.v[2] /= Batch(c)[2]

\* a patch was sent whose details were list-like text, sent as one paragraph,
\* and whose remediation was list-like text, sent as a bullet list
C25_PatchSent ==
  \E c \in DOMAIN calls :
    /\ calls[c].name = "update_vulnerability"
    /\ Len(Sent(c)) = 1
    /\ Get(calls[c].original, "details") = Str(ListText)
    /\ Get(Sent(c)[1].body, "details") = Str(Paragraph(ListText))
    /\ Get(calls[c].original, "remediation") = Str(ListText)
    /\ Get(Sent(c)[1].body, "remediation")
         = Str(BulletList(<<<<"a">>, <<"b">>>>))

====
